---- MODULE Spec2Model ----
(***************************************************************************)
(* Turn-taking controller of the interview room (InterviewRoom component   *)
(* and the browser transcription service it drives).                       *)
(*                                                                         *)
(* Texts are sequences of word tokens; a token stands for one word as the  *)
(* recognizer or the reply oracle writes it (with its case and trailing    *)
(* punctuation).  Tok gives, for every token, what String.toLowerCase,     *)
(* the leading-character toUpperCase, the punctuation-stripping replace    *)
(* and String.length make of it.                                           *)
(*                                                                         *)
(* React state read through a closure is the value of the render that      *)
(* created the closure: every callback, timer and pending call carries the *)
(* isAiSpeaking value its closure captured (field capt).                   *)
(*                                                                         *)
(* Time is not measured: timers pending together expire in the order their *)
(* delays and setting order impose, and every other event (oracle answer,  *)
(* end of playback, recognizer result) may come at any moment.             *)
(***************************************************************************)
EXTENDS Integers, Sequences, FiniteSets, TLC

\* ------------------------------------------------------------------------
\* Bounds of the model
\* ------------------------------------------------------------------------
\* utterances appended to the transcript, texts the candidate sends by hand,
\* interviews started
MaxAccepted == 2
MaxSends == 1
MaxSessions == 1
\* Agent speeches in progress at once, and Agent turns begun in all, that the
\* model follows
MaxSpeaking == 1
MaxTurns == 3
\* words of an utterance given to the normalizer
MaxWords == 6
\* requests of a series that arrives at one instant
MaxBurst == 11
\* restart timers of the transcription service that are pending
MaxRestarts == 3
\* seconds the duration counter counts
MaxDuration == 2
\* scoring requests of the score interval that await their answer
MaxInFlight == 1
\* entries of the emotion buffer of a scoring request
MaxEmotions == 2
\* samples the emotion source delivers
MaxSamples == 2
\* requests to one process of the scoring route
MaxRequests == 2
\* steps of 30 s the route's clock makes
MaxTicks == 3

\* ------------------------------------------------------------------------
\* Tokens
\* ------------------------------------------------------------------------
\* One row per word form: the form itself, its toLowerCase(), the form with
\* its first character upper-cased, the form with [.,!?;:] removed, its length.
Words ==
  {
    [w |-> "i", lower |-> "i", upper |-> "I", strip |-> "i", len |-> 1],
    [w |-> "I", lower |-> "i", upper |-> "I", strip |-> "I", len |-> 1],
    [w |-> "want", lower |-> "want", upper |-> "Want", strip |-> "want", len |-> 4],
    [w |-> "Want", lower |-> "want", upper |-> "Want", strip |-> "Want", len |-> 4],
    [w |-> "it", lower |-> "it", upper |-> "It", strip |-> "it", len |-> 2],
    [w |-> "It", lower |-> "it", upper |-> "It", strip |-> "It", len |-> 2],
    [w |-> "now.", lower |-> "now.", upper |-> "Now.", strip |-> "now", len |-> 4],
    [w |-> "Now.", lower |-> "now.", upper |-> "Now.", strip |-> "Now", len |-> 4],
    [w |-> "and", lower |-> "and", upper |-> "And", strip |-> "and", len |-> 3],
    [w |-> "And", lower |-> "and", upper |-> "And", strip |-> "And", len |-> 3],
    [w |-> "project", lower |-> "project", upper |-> "Project", strip |-> "project", len |-> 7],
    [w |-> "Project", lower |-> "project", upper |-> "Project", strip |-> "Project", len |-> 7],
    [w |-> "yes.", lower |-> "yes.", upper |-> "Yes.", strip |-> "yes", len |-> 4],
    [w |-> "Yes.", lower |-> "yes.", upper |-> "Yes.", strip |-> "Yes", len |-> 4],
    [w |-> "good", lower |-> "good", upper |-> "Good", strip |-> "good", len |-> 4],
    [w |-> "Good", lower |-> "good", upper |-> "Good", strip |-> "Good", len |-> 4],
    [w |-> "start", lower |-> "start", upper |-> "Start", strip |-> "start", len |-> 5],
    [w |-> "Start", lower |-> "start", upper |-> "Start", strip |-> "Start", len |-> 5],
    [w |-> "start.", lower |-> "start.", upper |-> "Start.", strip |-> "start", len |-> 6],
    [w |-> "Start.", lower |-> "start.", upper |-> "Start.", strip |-> "Start", len |-> 6],
    [w |-> "tell", lower |-> "tell", upper |-> "Tell", strip |-> "tell", len |-> 4],
    [w |-> "Tell", lower |-> "tell", upper |-> "Tell", strip |-> "Tell", len |-> 4],
    [w |-> "more.", lower |-> "more.", upper |-> "More.", strip |-> "more", len |-> 5],
    [w |-> "More.", lower |-> "more.", upper |-> "More.", strip |-> "More", len |-> 5],
    [w |-> "please", lower |-> "please", upper |-> "Please", strip |-> "please", len |-> 6],
    [w |-> "Please", lower |-> "please", upper |-> "Please", strip |-> "Please", len |-> 6],
    [w |-> "elaborate.", lower |-> "elaborate.", upper |-> "Elaborate.", strip |-> "elaborate", len |-> 10],
    [w |-> "Elaborate.", lower |-> "elaborate.", upper |-> "Elaborate.", strip |-> "Elaborate", len |-> 10],
    [w |-> "thank", lower |-> "thank", upper |-> "Thank", strip |-> "thank", len |-> 5],
    [w |-> "Thank", lower |-> "thank", upper |-> "Thank", strip |-> "Thank", len |-> 5],
    [w |-> "you", lower |-> "you", upper |-> "You", strip |-> "you", len |-> 3],
    [w |-> "You", lower |-> "you", upper |-> "You", strip |-> "You", len |-> 3],
    [w |-> "yes", lower |-> "yes", upper |-> "Yes", strip |-> "yes", len |-> 3],
    [w |-> "Yes", lower |-> "yes", upper |-> "Yes", strip |-> "Yes", len |-> 3],
    [w |-> "is", lower |-> "is", upper |-> "Is", strip |-> "is", len |-> 2],
    [w |-> "Is", lower |-> "is", upper |-> "Is", strip |-> "Is", len |-> 2],
    [w |-> "so", lower |-> "so", upper |-> "So", strip |-> "so", len |-> 2],
    [w |-> "So", lower |-> "so", upper |-> "So", strip |-> "So", len |-> 2],
    [w |-> "a", lower |-> "a", upper |-> "A", strip |-> "a", len |-> 1],
    [w |-> "A", lower |-> "a", upper |-> "A", strip |-> "A", len |-> 1],
    [w |-> "let's", lower |-> "let's", upper |-> "Let's", strip |-> "let's", len |-> 5],
    [w |-> "Let's", lower |-> "let's", upper |-> "Let's", strip |-> "Let's", len |-> 5],
    [w |-> "get", lower |-> "get", upper |-> "Get", strip |-> "get", len |-> 3],
    [w |-> "Get", lower |-> "get", upper |-> "Get", strip |-> "Get", len |-> 3],
    [w |-> "on", lower |-> "on", upper |-> "On", strip |-> "on", len |-> 2],
    [w |-> "On", lower |-> "on", upper |-> "On", strip |-> "On", len |-> 2],
    [w |-> "this", lower |-> "this", upper |-> "This", strip |-> "this", len |-> 4],
    [w |-> "This", lower |-> "this", upper |-> "This", strip |-> "This", len |-> 4],
    [w |-> "that's", lower |-> "that's", upper |-> "That's", strip |-> "that's", len |-> 6],
    [w |-> "That's", lower |-> "that's", upper |-> "That's", strip |-> "That's", len |-> 6],
    [w |-> "more", lower |-> "more", upper |-> "More", strip |-> "more", len |-> 4],
    [w |-> "More", lower |-> "more", upper |-> "More", strip |-> "More", len |-> 4],
    [w |-> "um", lower |-> "um", upper |-> "Um", strip |-> "um", len |-> 2],
    [w |-> "Um", lower |-> "um", upper |-> "Um", strip |-> "Um", len |-> 2],
    [w |-> "like", lower |-> "like", upper |-> "Like", strip |-> "like", len |-> 4],
    [w |-> "Like", lower |-> "like", upper |-> "Like", strip |-> "Like", len |-> 4],
    [w |-> "problem", lower |-> "problem", upper |-> "Problem", strip |-> "problem", len |-> 7],
    [w |-> "Problem", lower |-> "problem", upper |-> "Problem", strip |-> "Problem", len |-> 7],
    [w |-> "team", lower |-> "team", upper |-> "Team", strip |-> "team", len |-> 4],
    [w |-> "Team", lower |-> "team", upper |-> "Team", strip |-> "Team", len |-> 4],
    [w |-> "then", lower |-> "then", upper |-> "Then", strip |-> "then", len |-> 4],
    [w |-> "Then", lower |-> "then", upper |-> "Then", strip |-> "Then", len |-> 4]
  }

\* <<a, b>>: the lower-case word a begins with the characters of the
\* punctuation-free lower-case word b (String.includes at a word start)
PrefixPairs ==
  { <<"i", "i">>, <<"want", "want">>, <<"it", "i">>, <<"it", "it">>,
    <<"now.", "now">>, <<"and", "a">>, <<"and", "and">>,
    <<"project", "project">>, <<"yes.", "yes">>, <<"good", "good">>,
    <<"start", "start">>, <<"start.", "start">>, <<"tell", "tell">>,
    <<"more.", "more">>, <<"please", "please">>,
    <<"elaborate.", "elaborate">>, <<"thank", "thank">>, <<"you", "you">>,
    <<"yes", "yes">>, <<"is", "i">>, <<"is", "is">>, <<"so", "so">>,
    <<"a", "a">>, <<"let's", "let's">>, <<"get", "get">>, <<"on", "on">>,
    <<"this", "this">>, <<"that's", "that's">>, <<"more", "more">>,
    <<"um", "um">>, <<"like", "like">>, <<"problem", "problem">>,
    <<"team", "team">>, <<"then", "then">> }

\* <<a, b>>: the lower-case word a ends with the characters of b
SuffixPairs ==
  { <<"i", "i">>, <<"want", "want">>, <<"it", "it">>, <<"and", "and">>,
    <<"project", "project">>, <<"good", "good">>, <<"start", "start">>,
    <<"tell", "tell">>, <<"please", "please">>, <<"thank", "thank">>,
    <<"you", "you">>, <<"yes", "yes">>, <<"is", "is">>, <<"so", "so">>,
    <<"a", "a">>, <<"let's", "let's">>, <<"get", "get">>, <<"on", "on">>,
    <<"this", "is">>, <<"this", "this">>, <<"that's", "that's">>,
    <<"more", "more">>, <<"um", "um">>, <<"like", "like">>,
    <<"problem", "problem">>, <<"team", "team">>, <<"then", "then">> }

Tok == [w \in {r.w : r \in Words} |-> CHOOSE r \in Words : r.w = w]

toLowerCase(w) == Tok[w].lower
capitalize(w) == Tok[w].upper
stripPunct(w) == Tok[w].strip

\* /[.!?]$/ on a word
EndsTerminal(w) == Tok[w].strip # w

RECURSIVE SumLen(_)
SumLen(text) == IF text = <<>> THEN 0 ELSE Tok[Head(text)].len + SumLen(Tail(text))

\* String.length of the words joined by single spaces
TextLen(text) == IF text = <<>> THEN 0 ELSE SumLen(text) + Len(text) - 1

LowerText(text) == [i \in 1..Len(text) |-> toLowerCase(text[i])]

\* ------------------------------------------------------------------------
\* Utterance normalizer (removeStuttering)
\* ------------------------------------------------------------------------
\* words.filter((word, index) => index === 0 || word !== words[index - 1])
RECURSIVE withoutSingleRepeatsFrom(_, _)
withoutSingleRepeatsFrom(words, index) ==
  IF index > Len(words) THEN <<>>
  ELSE IF index = 1 \/ words[index] # words[index - 1]
       THEN <<words[index]>> \o withoutSingleRepeatsFrom(words, index + 1)
       ELSE withoutSingleRepeatsFrom(words, index + 1)

\* the for loop with a 2-word test that compares the first words only
RECURSIVE collapsePhrases_FirstWordOnly(_, _, _)
collapsePhrases_FirstWordOnly(w, i, result) ==
  IF i > Len(w) THEN result
  ELSE IF i > 1 /\ w[i] = result[Len(result)]
       THEN collapsePhrases_FirstWordOnly(w, i + 1, result)
  ELSE IF i + 3 <= Len(w) /\ w[i] = w[i + 2]
       THEN collapsePhrases_FirstWordOnly(w, i + 4, result \o <<w[i], w[i + 1]>>)
  ELSE IF i + 5 <= Len(w) /\ w[i] = w[i + 3] /\ w[i + 1] = w[i + 4] /\ w[i + 2] = w[i + 5]
       THEN collapsePhrases_FirstWordOnly(w, i + 6, result \o <<w[i], w[i + 1], w[i + 2]>>)
  ELSE collapsePhrases_FirstWordOnly(w, i + 1, Append(result, w[i]))

\* the for loop over withoutSingleRepeats; i is the 1-based loop index
RECURSIVE collapsePhrases(_, _, _)
collapsePhrases(w, i, result) ==
  IF i > Len(w) THEN result
  ELSE IF i > 1 /\ w[i] = result[Len(result)]
       THEN collapsePhrases(w, i + 1, result)
  ELSE IF i + 3 <= Len(w) /\ w[i] = w[i + 2] /\ w[i + 1] = w[i + 3]
       THEN collapsePhrases(w, i + 4, result \o <<w[i], w[i + 1]>>)
  ELSE IF i + 5 <= Len(w) /\ w[i] = w[i + 3] /\ w[i + 1] = w[i + 4] /\ w[i + 2] = w[i + 5]
       THEN collapsePhrases(w, i + 6, result \o <<w[i], w[i + 1], w[i + 2]>>)
  ELSE collapsePhrases(w, i + 1, Append(result, w[i]))

removeStuttering(text) ==
  IF text = <<>> \/ TextLen(text) < 5 THEN text
  ELSE LET result == collapsePhrases(withoutSingleRepeatsFrom(LowerText(text), 1), 1, <<>>)
       IN  <<capitalize(result[1])>> \o Tail(result)

\* ------------------------------------------------------------------------
\* Completion heuristic
\* ------------------------------------------------------------------------
\* a two-word phrase occurring in the text, case-insensitively
HasPhrase(text, a, b) ==
  \E i \in 1..(Len(text) - 1) :
     toLowerCase(text[i]) = a /\ stripPunct(toLowerCase(text[i + 1])) = b

\* text.toLowerCase().includes(' ' + word + ' ')
HasMedial(text, word) ==
  \E i \in 2..(Len(text) - 1) : toLowerCase(text[i]) = word

EndsWithTerminal(text) == text # <<>> /\ EndsTerminal(text[Len(text)])

\* of the closing phrases of the regular expression, "thank you" and
\* "that's it" can be written with Words
definitelyComplete(n) ==
  EndsWithTerminal(n) \/ HasPhrase(n, "thank", "you") \/ HasPhrase(n, "that's", "it")

seemsComplete(n) ==
  \/ TextLen(n) > 25
  \/ HasMedial(n, "and")
  \/ HasMedial(n, "so")
  \/ HasMedial(n, "but")
  \/ HasMedial(n, "because")

\* delay of the timer the first listening phase sets for n; 0 when it sets none
InitialDelay(n) ==
  IF definitelyComplete(n) /\ TextLen(n) > 10 THEN 300
  ELSE IF seemsComplete(n) /\ TextLen(n) > 15 THEN 800
  ELSE IF TextLen(n) > 10 THEN 1500
  ELSE 0

isComplete(n) == EndsWithTerminal(n) \/ TextLen(n) > 25 \/ HasPhrase(n, "thank", "you")

\* delay of the timer a listening phase after an Agent turn sets for n
FollowUpDelay(n) ==
  IF TextLen(n) > 8 THEN (IF isComplete(n) THEN 500 ELSE 1200) ELSE 0

\* ------------------------------------------------------------------------
\* Echo check of the listening phase after an Agent turn
\* ------------------------------------------------------------------------
aiWordsOf(aiLastText) ==
  LET lw == LowerText(aiLastText)
  IN  [i \in {j \in 1..Len(lw) : Tok[lw[j]].len > 2} |-> stripPunct(lw[i])]

transcriptWordsOf(newTranscript) ==
  [i \in 1..Len(newTranscript) |-> stripPunct(toLowerCase(newTranscript[i]))]

matchCountOf(aiLastText, newTranscript) ==
  LET aw == aiWordsOf(aiLastText)
      tw == transcriptWordsOf(newTranscript)
  IN  Cardinality({i \in DOMAIN aw : \E k \in 1..Len(tw) : tw[k] = aw[i]})

\* word a begins with the characters of b (b a stripped lower-case word)
StartsWith(a, b) == <<a, b>> \in PrefixPairs

\* word a ends with the characters of b
EndsWith(a, b) == <<a, b>> \in SuffixPairs

\* aiLastText.toLowerCase().includes(pair) for a pair of adjacent words of
\* the transcript: the Agent text has a word ending with the first and, next
\* to it, a word beginning with the second
sequenceDetectedIn(aiLastText, newTranscript) ==
  LET lw == LowerText(aiLastText)
      tw == transcriptWordsOf(newTranscript)
  IN  \E i \in 1..(Len(tw) - 1) : \E j \in 1..(Len(lw) - 1) :
         EndsWith(lw[j], tw[i]) /\ StartsWith(lw[j + 1], tw[i + 1])

\* matchRatio > 0.3, in integers
RatioAbove30(aiLastText, newTranscript) ==
  Len(newTranscript) > 0
  /\ 10 * matchCountOf(aiLastText, newTranscript) > 3 * Len(newTranscript)

\* echoDetected with the thresholds of a laxer filter: a ratio above 60%, or
\* a sequence match with a ratio above 30%
echoDetected_HighRatioOnly(aiLastText, newTranscript) ==
  \/ (Len(newTranscript) > 0
      /\ 10 * matchCountOf(aiLastText, newTranscript) > 6 * Len(newTranscript))
  \/ (sequenceDetectedIn(aiLastText, newTranscript) /\ RatioAbove30(aiLastText, newTranscript))

\* the four echo conditions of the callback installed after an Agent turn
echoDetected(aiLastText, newTranscript) ==
  \/ matchCountOf(aiLastText, newTranscript) > 1
  \/ (matchCountOf(aiLastText, newTranscript) > 0 /\ Len(newTranscript) < 4)
  \/ RatioAbove30(aiLastText, newTranscript)
  \/ sequenceDetectedIn(aiLastText, newTranscript)

\* ------------------------------------------------------------------------
\* Inputs
\* ------------------------------------------------------------------------
\* final transcripts the recognizer delivers and texts the candidate types
Utterances ==
  { <<"I", "I", "want", "it", "now.">>,
    <<"I", "want", "it", "now.">>,
    <<"I", "want", "it", "and", "project">>,
    <<"Good", "start.">> }

\* texts the candidate types
TypedTexts == { <<"I", "want", "it", "now.">> }

initialGreeting == <<"Please", "tell", "more.">>
fallbackResponse == <<"Please", "elaborate.">>
\* non-blank texts the oracle returns
OracleReplies == { <<"Good", "start.", "Tell", "more.">> }

NoText == <<>>

\* ------------------------------------------------------------------------
\* State
\* ------------------------------------------------------------------------
VARIABLES
  isRecording,          \* interviewState.isRecording
  isAiSpeaking,         \* interviewState.isAiSpeaking
  transcription,        \* interviewState.transcription: the pieces appended, in order
  conversationHistory,  \* conversationHistory
  lastTranscriptionRef, \* lastTranscriptionRef.current
  isListening,          \* transcriptionService.isListening
  callback,             \* transcriptionService.callback
  recRunning,           \* the SpeechRecognition object is started
  timers,               \* pending setTimeout calls, oldest first; held marks the one
                        \* whose handle silenceTimeout of the installed callback keeps
  oracle,               \* number of /api/ai-response requests in flight
  synth,                \* utterances handed to window.speechSynthesis
  micEnabled,           \* audioTracks[0].enabled
  sessions,             \* number of interviews started
  sent,                 \* number of texts sent by hand
  accepted,             \* number of utterances appended to the transcript so far
  turns,                \* number of Agent turns begun (greetings and reply requests)
  samePhase,            \* an utterance was appended since transcription last (re)started
  outcome,              \* the result the last step delivered, if it delivered one, and
                        \* what the callback did with it
  scoring,              \* the requests to the scoring route with their responses, in order
  route,                \* the scoring route's process: genAI, the clock, rateLimitCache
  stateEmotions,        \* interviewState.emotions
  emotionSource,        \* faceProcessor: "off", "starting" (startEmotionDetection has not
                        \* set its interval yet) or "running" (intervalId is set)
  periodic              \* the duration and score intervals of the component, in seconds

vars == <<isRecording, isAiSpeaking, transcription, conversationHistory,
          lastTranscriptionRef, isListening, callback, recRunning,
          timers, oracle, synth, micEnabled, sessions, sent, accepted, turns, samePhase, outcome,
          periodic, scoring, route, stateEmotions, emotionSource>>

NoOutcome == [result |-> "none", heard |-> NoText]
Outcome(result, heard) == [result |-> result, heard |-> heard]

NoCallback == [kind |-> "none", capt |-> FALSE, aiLastText |-> NoText, early |-> FALSE]
\* the callback startTranscription of the component installs
InitialCallback(capt) == [kind |-> "initial", capt |-> capt, aiLastText |-> NoText, early |-> FALSE]
\* the callback installed 800 ms after an Agent turn was spoken
FollowUpCallback(capt, text) == [kind |-> "followUp", capt |-> capt, aiLastText |-> text, early |-> TRUE]
\* the callbacks of the error paths, which only log
LogCallback == [kind |-> "log", capt |-> FALSE, aiLastText |-> NoText, early |-> FALSE]

\* the scoring route's module state when the process starts; genAI is set when the
\* environment has GEMINI_API_KEY
Route(g) == [genAI |-> g, now |-> 0, rateLimitCache |-> {}]
NoRoute == Route(FALSE)

\* the score effect sends a request when more than 30 s have passed since
\* the last update, and checks every 10 s
scoreUpdateSeconds == 30
scoreCheckSeconds == 10

\* No interval is set.  durationDue and scoreDue are the seconds until the
\* interval is due (0: due now); rendered says that the effects of the last
\* state change have run; sinceUpdate is Date.now() - lastScoreUpdate, counted
\* up to scoreUpdateSeconds + 1, and closureSince the same as the closure of
\* the score interval sees it; inFlight holds the age of every request that
\* has not been answered.
NoIntervals ==
  [armed |-> FALSE, durationDue |-> 0, scoreDue |-> 0, rendered |-> TRUE, duration |-> 0,
   sinceUpdate |-> scoreUpdateSeconds + 1, closureSince |-> scoreUpdateSeconds + 1,
   inFlight |-> {}]

\* the effects on isRecording = true: setInterval(updateScore, 10000) and the
\* 1000 ms duration interval
setIntervals(p) ==
  [p EXCEPT !.armed = TRUE, !.durationDue = 1, !.scoreDue = scoreCheckSeconds,
            !.rendered = TRUE, !.duration = 0, !.closureSince = p.sinceUpdate]

\* their cleanup
clearIntervals(p) == [p EXCEPT !.armed = FALSE, !.rendered = TRUE]

\* nothing has been started
Idle ==
  /\ isRecording = FALSE
  /\ isAiSpeaking = FALSE
  /\ transcription = <<>>
  /\ conversationHistory = <<>>
  /\ lastTranscriptionRef = NoText
  /\ isListening = FALSE
  /\ callback = NoCallback
  /\ recRunning = FALSE
  /\ timers = <<>>
  /\ oracle = 0
  /\ synth = <<>>
  /\ micEnabled = TRUE
  /\ sessions = 0
  /\ sent = 0
  /\ accepted = 0
  /\ turns = 0
  /\ samePhase = FALSE
  /\ outcome = NoOutcome

Init ==
  /\ Idle
  /\ scoring = <<>>
  /\ route = NoRoute
  /\ stateEmotions = <<>>
  /\ emotionSource = "off"
  /\ periodic = NoIntervals

\* ------------------------------------------------------------------------
\* Timers
\* ------------------------------------------------------------------------
Timer(kind, delay, capt, text, orig, held) ==
  [kind |-> kind, delay |-> delay, capt |-> capt, text |-> text, orig |-> orig, held |-> held]

RemoveAt(seq, i) == SubSeq(seq, 1, i - 1) \o SubSeq(seq, i + 1, Len(seq))

\* if (silenceTimeout) clearTimeout(silenceTimeout)
clearSilenceTimeout(ts) == SelectSeq(ts, LAMBDA t : ~t.held)

\* a new first-phase callback has its own silenceTimeout, null at first
forgetSilenceTimeout(ts) == [i \in 1..Len(ts) |-> [ts[i] EXCEPT !.held = FALSE]]

\* A timer set earlier with a delay that is not longer expires first.
CanFire(i) == \A j \in 1..(i - 1) : timers[j].delay > timers[i].delay

Pending(kind) == {i \in 1..Len(timers) : timers[i].kind = kind}

\* ------------------------------------------------------------------------
\* Transcription service
\* ------------------------------------------------------------------------
\* startTranscription(cb): the callback is replaced and recognition started
\* (a start() on a started recognizer throws and is caught)
svcStartTranscription(cb) ==
  /\ callback' = cb
  /\ isListening' = TRUE
  /\ recRunning' = TRUE

\* a stop that flips the recognizer instead of stopping it
svcStopTranscription_Flip ==
  /\ isListening' = FALSE
  /\ recRunning' = ~recRunning
  /\ UNCHANGED callback

svcStopTranscription ==
  /\ isListening' = FALSE
  /\ recRunning' = FALSE
  /\ UNCHANGED callback

svcUnchanged == UNCHANGED <<isListening, callback, recRunning>>

\* ------------------------------------------------------------------------
\* Speech synthesis
\* ------------------------------------------------------------------------
\* window.speechSynthesis.cancel(): every utterance is dropped from the queue;
\* its end or error event is still to be delivered
cancelAll(q) == [i \in 1..Len(q) |-> [q[i] EXCEPT !.cancelled = TRUE]]

\* the utterances that are playing or waiting to play
Audible(q) == {i \in 1..Len(q) : ~q[i].cancelled}

\* the utterance whose end or error event can come next
CanFinish(i) == synth[i].cancelled \/ \A j \in Audible(synth) : j >= i

\* Agent speeches in progress: waiting to speak, handed to the synthesizer,
\* or in the pause after playback
Speaking ==
  Len(synth) + Cardinality({i \in 1..Len(timers) : timers[i].kind \in {"preSpeak", "resume"}})

\* speakAiResponse up to its 500 ms wait; ts is the timer list to extend
speakAiResponse(text, capt, ts) ==
  /\ Speaking < MaxSpeaking
  /\ synth' = cancelAll(synth)
  /\ svcStopTranscription
  /\ timers' = Append(ts, Timer("preSpeak", 500, capt, text, FALSE, FALSE))

\* generateAIResponse up to the fetch; aiSpeaking is interviewState.isAiSpeaking
\* as the calling closure sees it
generateAIResponse(userInput, aiSpeaking) ==
  IF aiSpeaking \/ TextLen(userInput) < 5
  THEN UNCHANGED <<isAiSpeaking, oracle, turns>>
  ELSE /\ turns < MaxTurns
       /\ isAiSpeaking' = TRUE
       /\ oracle' = oracle + 1
       /\ turns' = turns + 1

\* ------------------------------------------------------------------------
\* Emotion source
\* ------------------------------------------------------------------------
\* startEmotionDetection: the interval is set once the models and the camera
\* stream have been awaited
startEmotionDetection(src) == IF src = "off" THEN "starting" ELSE src

\* stopEmotionDetection: clearInterval when intervalId is set
stopEmotionDetection(src) == IF src = "running" THEN "off" ELSE src

\* ------------------------------------------------------------------------
\* Operations
\* ------------------------------------------------------------------------
\* The candidate clicks Start Interview; the render that follows runs the
\* effect that starts transcription with the first-phase callback.
startInterview ==
  /\ outcome' = NoOutcome
  /\ UNCHANGED <<scoring, route>>
  /\ periodic' = setIntervals(periodic)
  /\ stateEmotions' = <<>>
  /\ emotionSource' = startEmotionDetection(emotionSource)
  /\ ~isRecording
  /\ sessions < MaxSessions /\ turns < MaxTurns
  /\ isRecording' = TRUE
  /\ transcription' = <<>>
  /\ timers' = Append(forgetSilenceTimeout(timers),
                      Timer("greeting", 1000, isAiSpeaking, NoText, FALSE, FALSE))
  /\ lastTranscriptionRef' = NoText
  /\ svcStartTranscription(InitialCallback(isAiSpeaking))
  /\ sessions' = sessions + 1
  /\ turns' = turns + 1
  /\ samePhase' = FALSE
  /\ UNCHANGED <<isAiSpeaking, conversationHistory, oracle, synth, micEnabled, sent, accepted>>

\* a greeting timer that writes the state it captured when it was set
GreetingTimer_StaleState(i) ==
  /\ outcome' = NoOutcome
  /\ UNCHANGED <<periodic, scoring, route, emotionSource>>
  /\ i \in Pending("greeting") /\ CanFire(i)
  /\ stateEmotions' = <<>>
  /\ conversationHistory' = <<[speaker |-> "exchequer", text |-> initialGreeting]>>
  /\ isAiSpeaking' = TRUE
  /\ timers' = Append(RemoveAt(timers, i),
                      Timer("greetSpeak", 100, timers[i].capt, initialGreeting, FALSE, FALSE))
  /\ svcUnchanged
  /\ UNCHANGED <<isRecording, transcription, lastTranscriptionRef, oracle, synth,
                 micEnabled, sessions, sent, accepted, turns, samePhase>>

\* the 1000 ms timer of startInterview
GreetingTimer(i) ==
  /\ outcome' = NoOutcome
  /\ UNCHANGED <<periodic, scoring, route, stateEmotions, emotionSource>>
  /\ i \in Pending("greeting") /\ CanFire(i)
  /\ conversationHistory' = <<[speaker |-> "exchequer", text |-> initialGreeting]>>
  /\ isAiSpeaking' = TRUE
  /\ timers' = Append(RemoveAt(timers, i),
                      Timer("greetSpeak", 100, timers[i].capt, initialGreeting, FALSE, FALSE))
  /\ svcUnchanged
  /\ UNCHANGED <<isRecording, transcription, lastTranscriptionRef, oracle, synth,
                 micEnabled, sessions, sent, accepted, turns, samePhase>>

\* the 100 ms timer inside it: speakAiResponse(initialGreeting)
GreetingSpeakTimer(i) ==
  /\ outcome' = NoOutcome
  /\ UNCHANGED <<periodic, scoring, route, stateEmotions, emotionSource>>
  /\ i \in Pending("greetSpeak") /\ CanFire(i)
  /\ speakAiResponse(timers[i].text, timers[i].capt, RemoveAt(timers, i))
  /\ UNCHANGED <<isRecording, isAiSpeaking, transcription, conversationHistory,
                 lastTranscriptionRef, oracle, micEnabled, sessions, sent, accepted, turns, samePhase>>

\* speakAiResponse after its 500 ms wait: the track is disabled, its restore
\* is scheduled and the utterance is handed to the synthesizer
SpeakAfterWait(i) ==
  /\ outcome' = NoOutcome
  /\ UNCHANGED <<periodic, scoring, route, stateEmotions, emotionSource>>
  /\ i \in Pending("preSpeak") /\ CanFire(i)
  /\ micEnabled' = FALSE
  /\ timers' = Append(RemoveAt(timers, i),
                      Timer("micRestore", 2000, timers[i].capt, NoText, micEnabled, FALSE))
  /\ isAiSpeaking' = TRUE
  /\ synth' = Append(synth, [text |-> timers[i].text, capt |-> timers[i].capt,
                             cancelled |-> FALSE])
  /\ svcUnchanged
  /\ UNCHANGED <<isRecording, transcription, conversationHistory, lastTranscriptionRef,
                 oracle, sessions, sent, accepted, turns, samePhase>>

\* the 2000 ms timer that restores the track
MicRestoreTimer(i) ==
  /\ outcome' = NoOutcome
  /\ UNCHANGED <<periodic, scoring, route, stateEmotions, emotionSource>>
  /\ i \in Pending("micRestore") /\ CanFire(i)
  /\ micEnabled' = timers[i].orig
  /\ timers' = RemoveAt(timers, i)
  /\ svcUnchanged
  /\ UNCHANGED <<isRecording, isAiSpeaking, transcription, conversationHistory,
                 lastTranscriptionRef, oracle, synth, sessions, sent, accepted, turns, samePhase>>

\* utterance.onend
SpeechEnd(i) ==
  /\ outcome' = NoOutcome
  /\ UNCHANGED <<periodic, scoring, route, stateEmotions, emotionSource>>
  /\ i \in 1..Len(synth) /\ CanFinish(i)
  /\ isAiSpeaking' = FALSE
  /\ timers' = Append(timers, Timer("resume", 800, synth[i].capt, synth[i].text, FALSE, FALSE))
  /\ synth' = RemoveAt(synth, i)
  /\ svcUnchanged
  /\ UNCHANGED <<isRecording, transcription, conversationHistory, lastTranscriptionRef,
                 oracle, micEnabled, sessions, sent, accepted, turns, samePhase>>

\* utterance.onerror
SpeechError(i) ==
  /\ outcome' = NoOutcome
  /\ UNCHANGED <<periodic, scoring, route, stateEmotions, emotionSource>>
  /\ i \in 1..Len(synth) /\ CanFinish(i)
  /\ isAiSpeaking' = FALSE
  /\ svcStartTranscription(LogCallback)
  /\ synth' = RemoveAt(synth, i)
  /\ UNCHANGED <<isRecording, transcription, conversationHistory, lastTranscriptionRef,
                 timers, oracle, micEnabled, sessions, sent, accepted, turns, samePhase>>

\* the 800 ms timer of onend: transcription resumes with the follow-up callback
ResumeTimer(i) ==
  /\ outcome' = NoOutcome
  /\ UNCHANGED <<periodic, scoring, route, stateEmotions, emotionSource>>
  /\ i \in Pending("resume") /\ CanFire(i)
  /\ lastTranscriptionRef' = NoText
  /\ svcStartTranscription(FollowUpCallback(timers[i].capt, timers[i].text))
  /\ timers' = RemoveAt(timers, i)
  /\ samePhase' = FALSE
  /\ UNCHANGED <<isRecording, isAiSpeaking, transcription, conversationHistory,
                 oracle, synth, micEnabled, sessions, sent, accepted, turns>>

\* timeSinceResume < 1500: the echo window, in ms
echoWindow == 1500

\* 1500 ms have passed since transcription resumed
EchoWindowElapsed ==
  /\ outcome' = NoOutcome
  /\ UNCHANGED <<periodic, scoring, route, stateEmotions, emotionSource>>
  /\ callback.kind = "followUp" /\ callback.early
  /\ callback' = [callback EXCEPT !.early = FALSE]
  /\ UNCHANGED <<isRecording, isAiSpeaking, transcription, conversationHistory,
                 lastTranscriptionRef, isListening, recRunning, timers, oracle, synth,
                 micEnabled, sessions, sent, accepted, turns, samePhase>>

\* InitialResult with the duplicate test applied to the raw transcript instead
\* of the normalized one.
InitialResult_RawDuplicateTest(newTranscript) ==
  LET cleared == clearSilenceTimeout(timers)
      normalizedTranscript == removeStuttering(newTranscript)
      delay == InitialDelay(normalizedTranscript)
  IN  IF TextLen(newTranscript) <= 3
      THEN /\ outcome' = Outcome("short", newTranscript)
           /\ UNCHANGED <<transcription, lastTranscriptionRef, timers, samePhase, accepted>>
      ELSE IF newTranscript = lastTranscriptionRef
      THEN /\ outcome' = Outcome("duplicate", newTranscript)
           /\ timers' = cleared
           /\ UNCHANGED <<transcription, lastTranscriptionRef, samePhase, accepted>>
      ELSE /\ outcome' = Outcome("accepted", newTranscript)
           /\ accepted' = accepted + 1
           /\ lastTranscriptionRef' = normalizedTranscript
           /\ transcription' = Append(transcription, normalizedTranscript)
           /\ samePhase' = TRUE
           /\ IF callback.capt \/ delay = 0
              THEN timers' = cleared
              ELSE timers' = Append(cleared, Timer("completion", delay, callback.capt,
                                                   normalizedTranscript, FALSE, delay # 300))

\* The first-phase callback of startTranscription on a final result.
InitialResult(newTranscript) ==
  LET cleared == clearSilenceTimeout(timers)
      normalizedTranscript == removeStuttering(newTranscript)
      delay == InitialDelay(normalizedTranscript)
  IN  IF TextLen(newTranscript) <= 3
      THEN /\ outcome' = Outcome("short", newTranscript)
           /\ UNCHANGED <<transcription, lastTranscriptionRef, timers, samePhase, accepted>>
      ELSE IF normalizedTranscript = lastTranscriptionRef
      THEN /\ outcome' = Outcome("duplicate", newTranscript)
           /\ timers' = cleared
           /\ UNCHANGED <<transcription, lastTranscriptionRef, samePhase, accepted>>
      ELSE /\ outcome' = Outcome("accepted", newTranscript)
           /\ accepted' = accepted + 1
           /\ lastTranscriptionRef' = normalizedTranscript
           /\ transcription' = Append(transcription, normalizedTranscript)
           /\ samePhase' = TRUE
           /\ IF callback.capt \/ delay = 0
              THEN timers' = cleared
              ELSE timers' = Append(cleared, Timer("completion", delay, callback.capt,
                                                   normalizedTranscript, FALSE, delay # 300))

\* FollowUpResult with the echo check applied however long ago transcription
\* resumed.
FollowUpResult_AlwaysEchoCheck(newTranscript) ==
  LET normalizedTranscript == removeStuttering(newTranscript)
      delay == FollowUpDelay(normalizedTranscript)
  IN  IF \/ TextLen(newTranscript) <= 3
         \/ echoDetected(callback.aiLastText, newTranscript)
         \/ normalizedTranscript = lastTranscriptionRef
      THEN /\ outcome' = Outcome(IF TextLen(newTranscript) <= 3 THEN "short"
                                   ELSE IF echoDetected(callback.aiLastText, newTranscript)
                                        THEN "echo" ELSE "duplicate", newTranscript)
           /\ UNCHANGED <<transcription, lastTranscriptionRef, timers, samePhase, accepted>>
      ELSE /\ outcome' = Outcome("accepted", newTranscript)
           /\ accepted' = accepted + 1
           /\ lastTranscriptionRef' = normalizedTranscript
           /\ transcription' = Append(transcription, normalizedTranscript)
           /\ samePhase' = TRUE
           /\ timers' = IF callback.capt \/ delay = 0 THEN timers
                        ELSE Append(timers, Timer("completion", delay, callback.capt,
                                                  normalizedTranscript, FALSE, FALSE))

\* The callback installed after an Agent turn, on a final result.
FollowUpResult(newTranscript) ==
  LET normalizedTranscript == removeStuttering(newTranscript)
      delay == FollowUpDelay(normalizedTranscript)
  IN  IF \/ TextLen(newTranscript) <= 3
         \/ (callback.early /\ echoDetected(callback.aiLastText, newTranscript))
         \/ normalizedTranscript = lastTranscriptionRef
      THEN /\ outcome' = Outcome(IF TextLen(newTranscript) <= 3 THEN "short"
                                   ELSE IF callback.early
                                           /\ echoDetected(callback.aiLastText, newTranscript)
                                        THEN "echo" ELSE "duplicate", newTranscript)
           /\ UNCHANGED <<transcription, lastTranscriptionRef, timers, samePhase, accepted>>
      ELSE /\ outcome' = Outcome("accepted", newTranscript)
           /\ accepted' = accepted + 1
           /\ lastTranscriptionRef' = normalizedTranscript
           /\ transcription' = Append(transcription, normalizedTranscript)
           /\ samePhase' = TRUE
           /\ timers' = IF callback.capt \/ delay = 0 THEN timers
                        ELSE Append(timers, Timer("completion", delay, callback.capt,
                                                  normalizedTranscript, FALSE, FALSE))

\* recognition.onresult with a final result, handed to the installed callback
Result(newTranscript) ==
  /\ recRunning
  /\ callback.kind # "none"
  /\ accepted < MaxAccepted
  /\ CASE callback.kind = "initial"  -> InitialResult(newTranscript)
       [] callback.kind = "followUp" -> FollowUpResult(newTranscript)
       [] OTHER -> /\ outcome' = Outcome("logged", newTranscript)
                   /\ UNCHANGED <<transcription, lastTranscriptionRef, timers, samePhase, accepted>>
  /\ svcUnchanged
  /\ UNCHANGED <<isRecording, isAiSpeaking, conversationHistory, oracle, synth,
                 micEnabled, sessions, sent, turns, periodic, scoring, route, stateEmotions, emotionSource>>

\* a completion timer (300, 800, 1500, 500 or 1200 ms) expires
CompletionTimer(i) ==
  /\ outcome' = NoOutcome
  /\ UNCHANGED <<periodic, scoring, route, stateEmotions, emotionSource>>
  /\ i \in Pending("completion") /\ CanFire(i)
  /\ timers' = RemoveAt(timers, i)
  /\ IF timers[i].capt
     THEN UNCHANGED <<isAiSpeaking, oracle, turns>>
     ELSE generateAIResponse(timers[i].text, timers[i].capt)
  /\ svcUnchanged
  /\ UNCHANGED <<isRecording, transcription, conversationHistory, lastTranscriptionRef,
                 synth, micEnabled, sessions, sent, accepted, samePhase>>

\* the oracle answers with a non-blank text
OracleReply(aiText) ==
  /\ outcome' = NoOutcome
  /\ UNCHANGED <<periodic, scoring, route, stateEmotions, emotionSource>>
  /\ oracle > 0
  /\ oracle' = oracle - 1
  /\ speakAiResponse(aiText, FALSE, timers)
  /\ conversationHistory' = Append(conversationHistory, [speaker |-> "exchequer", text |-> aiText])
  /\ UNCHANGED <<isRecording, isAiSpeaking, transcription, lastTranscriptionRef,
                 micEnabled, sessions, sent, accepted, turns, samePhase>>

\* the oracle answers with a blank text
OracleBlank ==
  /\ outcome' = NoOutcome
  /\ UNCHANGED <<periodic, scoring, route, stateEmotions, emotionSource>>
  /\ oracle > 0
  /\ oracle' = oracle - 1
  /\ isAiSpeaking' = FALSE
  /\ speakAiResponse(fallbackResponse, FALSE, timers)
  /\ conversationHistory' = Append(conversationHistory,
                                   [speaker |-> "exchequer", text |-> fallbackResponse])
  /\ UNCHANGED <<isRecording, transcription, lastTranscriptionRef,
                 micEnabled, sessions, sent, accepted, turns, samePhase>>

\* the fetch fails, answers with a non-OK status, or its body does not parse
OracleFailure ==
  /\ outcome' = NoOutcome
  /\ UNCHANGED <<periodic, scoring, route, stateEmotions, emotionSource>>
  /\ oracle > 0
  /\ oracle' = oracle - 1
  /\ isAiSpeaking' = FALSE
  /\ svcStartTranscription(LogCallback)
  /\ UNCHANGED <<isRecording, transcription, conversationHistory, lastTranscriptionRef,
                 timers, synth, micEnabled, sessions, sent, accepted, turns, samePhase>>

\* the candidate sends a typed text
handleSendResponse(userInput) ==
  /\ outcome' = NoOutcome
  /\ UNCHANGED <<periodic, scoring, route, stateEmotions, emotionSource>>
  /\ isRecording
  /\ sent < MaxSends
  /\ sent' = sent + 1
  /\ svcStopTranscription
  /\ conversationHistory' = Append(conversationHistory, [speaker |-> "Candidate", text |-> userInput])
  /\ generateAIResponse(userInput, isAiSpeaking)
  /\ UNCHANGED <<isRecording, transcription, lastTranscriptionRef, timers,
                 synth, micEnabled, sessions, accepted, samePhase>>

endInterview ==
  /\ outcome' = NoOutcome
  /\ UNCHANGED <<scoring, route, stateEmotions>>
  /\ periodic' = clearIntervals(periodic)
  /\ emotionSource' = stopEmotionDetection(emotionSource)
  /\ isRecording
  /\ isRecording' = FALSE
  /\ svcStopTranscription
  /\ UNCHANGED <<isAiSpeaking, transcription, conversationHistory, lastTranscriptionRef,
                 timers, oracle, synth, micEnabled, sessions, sent, accepted, turns, samePhase>>

toggleMute ==
  /\ outcome' = NoOutcome
  /\ UNCHANGED <<periodic, scoring, route, stateEmotions, emotionSource>>
  /\ micEnabled' = ~micEnabled
  /\ svcUnchanged
  /\ UNCHANGED <<isRecording, isAiSpeaking, transcription, conversationHistory,
                 lastTranscriptionRef, timers, oracle, synth, sessions, sent, accepted, turns,
                 samePhase>>

\* the Clear button under the transcript, shown while the transcript is not
\* empty
clearTranscript ==
  /\ outcome' = NoOutcome
  /\ UNCHANGED <<periodic, scoring, route, stateEmotions, emotionSource>>
  /\ transcription # <<>>
  /\ transcription' = <<>>
  /\ svcUnchanged
  /\ UNCHANGED <<isRecording, isAiSpeaking, conversationHistory, lastTranscriptionRef,
                 timers, oracle, synth, micEnabled, sessions, sent, accepted, turns,
                 samePhase>>

\* the samples the detector reports: the professional label of the dominant
\* expression and its score in hundredths, above 0.4
EmotionSamples == {[emotion |-> "confident", score |-> 80], [emotion |-> "nervous", score |-> 45]}

\* startEmotionDetection has awaited the models and the camera: setInterval
EmotionDetectionStarted ==
  /\ outcome' = NoOutcome
  /\ emotionSource = "starting"
  /\ emotionSource' = "running"
  /\ svcUnchanged
  /\ UNCHANGED <<isRecording, isAiSpeaking, transcription, conversationHistory,
                 lastTranscriptionRef, timers, oracle, synth, micEnabled, sessions, sent,
                 accepted, turns, samePhase, periodic, scoring, route, stateEmotions>>

\* the callback of startEmotionAnalysis, called from the interval
EmotionDetected(emotion) ==
  /\ outcome' = NoOutcome
  /\ emotionSource = "running"
  /\ Len(stateEmotions) < MaxSamples
  /\ stateEmotions' = Append(stateEmotions, emotion)
  /\ svcUnchanged
  /\ UNCHANGED <<isRecording, isAiSpeaking, transcription, conversationHistory,
                 lastTranscriptionRef, timers, oracle, synth, micEnabled, sessions, sent,
                 accepted, turns, samePhase, periodic, scoring, route, emotionSource>>

\* transcriptionService.stopTranscription() called on its own, as the cleanup
\* of the component does, whatever the service is doing; the outcome records
\* whether the call found the service stopped already
stopTranscription ==
  /\ outcome' = Outcome(IF isListening \/ recRunning THEN "stopped" ELSE "stopped again", NoText)
  /\ svcStopTranscription
  /\ UNCHANGED <<isRecording, isAiSpeaking, transcription, conversationHistory,
                 lastTranscriptionRef, timers, oracle, synth, micEnabled, sessions, sent,
                 accepted, turns, samePhase, periodic, scoring, route, stateEmotions, emotionSource>>

Next ==
  \/ startInterview
  \/ \E i \in 1..Len(timers) : GreetingTimer(i)
  \/ \E i \in 1..Len(timers) : GreetingSpeakTimer(i)
  \/ \E i \in 1..Len(timers) : SpeakAfterWait(i)
  \/ \E i \in 1..Len(timers) : MicRestoreTimer(i)
  \/ \E i \in 1..Len(synth) : SpeechEnd(i)
  \/ \E i \in 1..Len(synth) : SpeechError(i)
  \/ \E i \in 1..Len(timers) : ResumeTimer(i)
  \/ EchoWindowElapsed
  \/ \E u \in Utterances : Result(u)
  \/ \E i \in 1..Len(timers) : CompletionTimer(i)
  \/ \E aiText \in OracleReplies : OracleReply(aiText)
  \/ OracleBlank
  \/ OracleFailure
  \/ \E u \in TypedTexts : handleSendResponse(u)
  \/ endInterview
  \/ toggleMute
  \/ clearTranscript

Spec == Init /\ [][Next]_vars

\* The spoken dialogue and the transcript alone: the machine without the
\* candidate's mute, manual-response and end-of-interview buttons and without
\* the restore of the audio track, on which no other step depends.
SpokenNext ==
  \/ startInterview
  \/ \E i \in 1..Len(timers) : GreetingTimer(i)
  \/ \E i \in 1..Len(timers) : GreetingSpeakTimer(i)
  \/ \E i \in 1..Len(timers) : SpeakAfterWait(i)
  \/ \E i \in 1..Len(synth) : SpeechEnd(i)
  \/ \E i \in 1..Len(synth) : SpeechError(i)
  \/ \E i \in 1..Len(timers) : ResumeTimer(i)
  \/ EchoWindowElapsed
  \/ \E u \in Utterances : Result(u)
  \/ \E i \in 1..Len(timers) : CompletionTimer(i)
  \/ \E aiText \in OracleReplies : OracleReply(aiText)
  \/ OracleBlank
  \/ OracleFailure
  \/ clearTranscript

SpokenSpec == Init /\ [][SpokenNext]_vars

\* what the recognizer delivers here
EmotionUtterances == {<<"I", "want", "it", "now.">>, <<"Good", "start.">>}

\* The spoken dialogue of one interview with the emotion source.
EmotionNext ==
  \/ startInterview
  \/ \E i \in 1..Len(timers) : GreetingTimer(i)
  \/ \E i \in 1..Len(timers) : GreetingSpeakTimer(i)
  \/ \E i \in 1..Len(timers) : SpeakAfterWait(i)
  \/ \E i \in 1..Len(synth) : SpeechEnd(i)
  \/ \E i \in 1..Len(synth) : SpeechError(i)
  \/ \E i \in 1..Len(timers) : ResumeTimer(i)
  \/ \E u \in EmotionUtterances : Result(u)
  \/ \E i \in 1..Len(timers) : CompletionTimer(i)
  \/ \E aiText \in OracleReplies : OracleReply(aiText)
  \/ OracleBlank
  \/ OracleFailure
  \/ EmotionDetectionStarted
  \/ \E emotion \in EmotionSamples : EmotionDetected(emotion)

EmotionSpec == Init /\ [][EmotionNext]_vars

\* The same with the End Interview button.
DetectorNext ==
  \/ EmotionNext
  \/ endInterview

DetectorSpec == Init /\ [][DetectorNext]_vars

\* The spoken dialogue with stopTranscription called at any moment.
ServiceNext ==
  \/ startInterview
  \/ \E i \in 1..Len(timers) : GreetingTimer(i)
  \/ \E i \in 1..Len(timers) : GreetingSpeakTimer(i)
  \/ \E i \in 1..Len(timers) : SpeakAfterWait(i)
  \/ \E i \in 1..Len(synth) : SpeechEnd(i)
  \/ \E i \in 1..Len(synth) : SpeechError(i)
  \/ \E i \in 1..Len(timers) : ResumeTimer(i)
  \/ \E u \in Utterances : Result(u)
  \/ \E i \in 1..Len(timers) : CompletionTimer(i)
  \/ \E aiText \in OracleReplies : OracleReply(aiText)
  \/ OracleBlank
  \/ OracleFailure
  \/ stopTranscription

ServiceSpec == Init /\ [][ServiceNext]_vars

\* short answers the recognizer delivers: 4, 9 and 14 characters
FloorUtterances == {<<"Yes.">>, <<"Yes", "it", "is">>, <<"I", "want", "it", "now.">>}

\* The spoken dialogue with short answers.
FloorNext ==
  \/ startInterview
  \/ \E i \in 1..Len(timers) : GreetingTimer(i)
  \/ \E i \in 1..Len(timers) : GreetingSpeakTimer(i)
  \/ \E i \in 1..Len(timers) : SpeakAfterWait(i)
  \/ \E i \in 1..Len(synth) : SpeechEnd(i)
  \/ \E i \in 1..Len(synth) : SpeechError(i)
  \/ \E i \in 1..Len(timers) : ResumeTimer(i)
  \/ EchoWindowElapsed
  \/ \E u \in FloorUtterances : Result(u)
  \/ \E i \in 1..Len(timers) : CompletionTimer(i)
  \/ \E aiText \in OracleReplies : OracleReply(aiText)
  \/ OracleBlank
  \/ OracleFailure

FloorSpec == Init /\ [][FloorNext]_vars

\* The spoken dialogue with the restore of the audio track; the candidate
\* never mutes the microphone.
MicNext ==
  \/ startInterview
  \/ \E i \in 1..Len(timers) : GreetingTimer(i)
  \/ \E i \in 1..Len(timers) : GreetingSpeakTimer(i)
  \/ \E i \in 1..Len(timers) : SpeakAfterWait(i)
  \/ \E i \in 1..Len(timers) : MicRestoreTimer(i)
  \/ \E i \in 1..Len(synth) : SpeechEnd(i)
  \/ \E i \in 1..Len(synth) : SpeechError(i)
  \/ \E i \in 1..Len(timers) : ResumeTimer(i)
  \/ EchoWindowElapsed
  \/ \E u \in EmotionUtterances : Result(u)
  \/ \E i \in 1..Len(timers) : CompletionTimer(i)
  \/ \E aiText \in OracleReplies : OracleReply(aiText)
  \/ OracleBlank
  \/ OracleFailure

MicSpec == Init /\ [][MicNext]_vars

\* ------------------------------------------------------------------------
\* The recognizer and the restarts of the transcription service
\* ------------------------------------------------------------------------
\* recognition.start() throws when the recognizer is running and starts it
\* otherwise; how is what the call found
recognitionStart(how) ==
  /\ outcome' = Outcome(IF recRunning THEN how \o " while running" ELSE how, NoText)
  /\ recRunning' = TRUE

\* the component calls startTranscription
startTranscription ==
  /\ callback' = LogCallback
  /\ isListening' = TRUE
  /\ recognitionStart("start")
  /\ UNCHANGED <<isRecording, isAiSpeaking, transcription, conversationHistory,
                 lastTranscriptionRef, timers, oracle, synth, micEnabled, sessions, sent,
                 accepted, turns, samePhase, periodic, scoring, route, stateEmotions,
                 emotionSource>>

\* event.error of onerror
RecognitionErrors == {"no-speech", "network", "not-allowed", "audio-capture"}

\* recognition.onerror.  After a network error the handler stops the
\* recognizer and sets its 1500 ms timer, and the onend that follows the stop
\* sets the 1000 ms timer; after any other error the recognizer ends later.
RecognizerError(error) ==
  /\ recRunning
  /\ outcome' = NoOutcome
  /\ IF error = "network" /\ isListening
     THEN /\ Len(timers) + 1 < MaxRestarts
          /\ recRunning' = FALSE
          /\ timers' = timers \o
               << Timer("networkRestart", 1500, FALSE, NoText, FALSE, FALSE),
                  Timer("restart", 1000, FALSE, NoText, FALSE, FALSE) >>
     ELSE UNCHANGED <<timers, recRunning>>
  /\ isListening' = IF error = "not-allowed" THEN FALSE ELSE isListening
  /\ UNCHANGED <<isRecording, isAiSpeaking, transcription, conversationHistory,
                 lastTranscriptionRef, callback, oracle, synth, micEnabled,
                 sessions, sent, accepted, turns, samePhase, periodic, scoring, route,
                 stateEmotions, emotionSource>>

\* recognition.onend: the recognizer has stopped, by itself or after an error
RecognizerEnd ==
  /\ recRunning
  /\ recRunning' = FALSE
  /\ outcome' = NoOutcome
  /\ IF isListening
     THEN /\ Len(timers) < MaxRestarts
          /\ timers' = Append(timers, Timer("restart", 1000, FALSE, NoText, FALSE, FALSE))
     ELSE UNCHANGED timers
  /\ UNCHANGED <<isRecording, isAiSpeaking, transcription, conversationHistory,
                 lastTranscriptionRef, isListening, callback, oracle, synth, micEnabled,
                 sessions, sent, accepted, turns, samePhase, periodic, scoring, route,
                 stateEmotions, emotionSource>>

\* a restart timer expires: the 1000 ms timer of onend, whose failed start
\* sets the 2000 ms timer, that timer, or the 1500 ms timer of a network error
RestartTimer(i) ==
  /\ i \in Pending("restart") \cup Pending("retry") \cup Pending("networkRestart")
  /\ CanFire(i)
  /\ IF isListening
     THEN /\ recognitionStart("restart")
          /\ timers' = IF timers[i].kind = "restart" /\ recRunning
                       THEN Append(RemoveAt(timers, i),
                                   Timer("retry", 2000, FALSE, NoText, FALSE, FALSE))
                       ELSE RemoveAt(timers, i)
     ELSE /\ outcome' = NoOutcome
          /\ timers' = RemoveAt(timers, i)
          /\ UNCHANGED recRunning
  /\ UNCHANGED <<isRecording, isAiSpeaking, transcription, conversationHistory,
                 lastTranscriptionRef, isListening, callback, oracle, synth, micEnabled,
                 sessions, sent, accepted, turns, samePhase, periodic, scoring, route,
                 stateEmotions, emotionSource>>

\* The service by itself, called at any time.
RecognizerNext ==
  \/ startTranscription
  \/ stopTranscription
  \/ \E error \in RecognitionErrors : RecognizerError(error)
  \/ RecognizerEnd
  \/ \E i \in 1..Len(timers) : RestartTimer(i)

RecognizerSpec == Init /\ [][RecognizerNext]_vars

\* ------------------------------------------------------------------------
\* The interview room with typed answers (speaker "Sarah")
\* ------------------------------------------------------------------------
\* This component keeps the same state fields; its replies go through the
\* text-to-speech route before they are played, and its log is only written
\* by generateAIResponse.
fullIntro == <<"Please", "tell", "more.">>
fallbackResponses == { <<"Please", "elaborate.">>, <<"Tell", "more.">> }

\* a timer of this component may expire when no timer set before it has a
\* shorter or equal delay; a pending request to a route delays nothing
typedCanFire(i) == \A j \in 1..(i - 1) : timers[j].kind \in {"tts", "request"} \/ timers[j].delay > timers[i].delay

\* speakAIResponse up to its request to /api/tts; ts is the pending list to extend
speakAIResponse(text, ts) == timers' = Append(ts, Timer("tts", 0, FALSE, text, FALSE, FALSE))

\* the callback this component installs: it appends to the transcript
AppendCallback == [kind |-> "append", capt |-> FALSE, aiLastText |-> NoText, early |-> FALSE]

\* Start Interview, with the effect on isRecording that starts the services
typedStartInterview ==
  /\ outcome' = NoOutcome
  /\ UNCHANGED <<periodic, scoring, route, stateEmotions>>
  /\ emotionSource' = startEmotionDetection(emotionSource)
  /\ ~isRecording
  /\ sessions < MaxSessions
  /\ sessions' = sessions + 1
  /\ isRecording' = TRUE
  /\ timers' = Append(timers, Timer("intro", 1000, FALSE, fullIntro, FALSE, FALSE))
  /\ svcStartTranscription(AppendCallback)
  /\ UNCHANGED <<isAiSpeaking, transcription, conversationHistory, lastTranscriptionRef,
                 oracle, synth, micEnabled, sent, accepted, turns, samePhase>>

\* the 1000 ms timer of startInterview
typedIntroTimer(i) ==
  /\ outcome' = NoOutcome
  /\ UNCHANGED <<periodic, scoring, route, stateEmotions, emotionSource>>
  /\ i \in Pending("intro") /\ typedCanFire(i)
  /\ speakAIResponse(timers[i].text, RemoveAt(timers, i))
  /\ svcUnchanged
  /\ UNCHANGED <<isRecording, isAiSpeaking, transcription, conversationHistory,
                 lastTranscriptionRef, oracle, synth, micEnabled, sessions, sent, accepted,
                 turns, samePhase>>

\* the text-to-speech route answers: the text is played (by the Audio element
\* or by the browser's synthesizer) or, when neither is available, only shown
typedTtsReply(i, played) ==
  /\ outcome' = NoOutcome
  /\ UNCHANGED <<periodic, scoring, route, stateEmotions, emotionSource>>
  /\ i \in Pending("tts")
  /\ timers' = RemoveAt(timers, i)
  /\ synth' = IF played
              THEN Append(synth, [text |-> timers[i].text, capt |-> FALSE, cancelled |-> FALSE])
              ELSE synth
  /\ svcUnchanged
  /\ UNCHANGED <<isRecording, isAiSpeaking, transcription, conversationHistory,
                 lastTranscriptionRef, oracle, micEnabled, sessions, sent, accepted,
                 turns, samePhase>>

\* playback ends; the handlers only log and advance the question index
typedSpeechEnd ==
  /\ outcome' = NoOutcome
  /\ UNCHANGED <<periodic, scoring, route, stateEmotions, emotionSource>>
  /\ synth # <<>>
  /\ synth' = Tail(synth)
  /\ svcUnchanged
  /\ UNCHANGED <<isRecording, isAiSpeaking, transcription, conversationHistory,
                 lastTranscriptionRef, timers, oracle, micEnabled, sessions, sent, accepted,
                 turns, samePhase>>

\* the candidate sends a typed answer
typedHandleSendResponse(userInput) ==
  /\ outcome' = NoOutcome
  /\ UNCHANGED <<periodic, scoring, route, stateEmotions, emotionSource>>
  /\ sent < MaxSends
  /\ sent' = sent + 1
  /\ transcription' = Append(transcription, userInput)
  /\ timers' = Append(timers, Timer("generate", 1000, isAiSpeaking, userInput, FALSE, FALSE))
  /\ svcUnchanged
  /\ UNCHANGED <<isRecording, isAiSpeaking, conversationHistory, lastTranscriptionRef,
                 oracle, synth, micEnabled, sessions, accepted, turns, samePhase>>

\* its 1000 ms timer: generateAIResponse(userResponse) up to the fetch, with
\* interviewState.isAiSpeaking as the render that set the timer saw it
typedGenerateTimer(i) ==
  /\ outcome' = NoOutcome
  /\ UNCHANGED <<periodic, scoring, route, stateEmotions, emotionSource>>
  /\ i \in Pending("generate") /\ typedCanFire(i)
  /\ IF timers[i].capt
     THEN /\ timers' = RemoveAt(timers, i)
          /\ UNCHANGED <<isAiSpeaking, oracle, turns>>
     ELSE /\ turns < MaxTurns
          /\ turns' = turns + 1
          /\ isAiSpeaking' = TRUE
          /\ oracle' = oracle + 1
          /\ timers' = Append(RemoveAt(timers, i),
                              Timer("request", 0, FALSE, timers[i].text, FALSE, FALSE))
  /\ svcUnchanged
  /\ UNCHANGED <<isRecording, transcription, conversationHistory, lastTranscriptionRef,
                 synth, micEnabled, sessions, sent, accepted, samePhase>>

\* the oracle answers with status OK
typedOracleReply(i, aiText) ==
  /\ outcome' = NoOutcome
  /\ UNCHANGED <<periodic, scoring, route, stateEmotions, emotionSource>>
  /\ i \in Pending("request")
  /\ oracle' = oracle - 1
  /\ conversationHistory' = conversationHistory \o
       << [speaker |-> "Candidate", text |-> timers[i].text],
          [speaker |-> "Sarah", text |-> aiText] >>
  /\ isAiSpeaking' = FALSE
  /\ speakAIResponse(aiText, RemoveAt(timers, i))
  /\ svcUnchanged
  /\ UNCHANGED <<isRecording, transcription, lastTranscriptionRef, synth, micEnabled,
                 sessions, sent, accepted, turns, samePhase>>

\* the fetch fails or answers with another status: the catch branch
typedOracleFailure(i, fallback) ==
  /\ outcome' = NoOutcome
  /\ UNCHANGED <<periodic, scoring, route, stateEmotions, emotionSource>>
  /\ i \in Pending("request")
  /\ oracle' = oracle - 1
  /\ isAiSpeaking' = FALSE
  /\ speakAIResponse(fallback, RemoveAt(timers, i))
  /\ svcUnchanged
  /\ UNCHANGED <<isRecording, transcription, conversationHistory, lastTranscriptionRef,
                 synth, micEnabled, sessions, sent, accepted, turns, samePhase>>

\* a final result of the recognizer
typedResult(newTranscript) ==
  /\ outcome' = Outcome("accepted", newTranscript)
  /\ UNCHANGED <<periodic, scoring, route, stateEmotions, emotionSource>>
  /\ isListening /\ callback.kind = "append"
  /\ accepted < MaxAccepted
  /\ accepted' = accepted + 1
  /\ transcription' = Append(transcription, newTranscript)
  /\ svcUnchanged
  /\ UNCHANGED <<isRecording, isAiSpeaking, conversationHistory, lastTranscriptionRef,
                 timers, oracle, synth, micEnabled, sessions, sent, turns, samePhase>>

\* End Interview, with the effect on isRecording that stops the services
typedEndInterview ==
  /\ outcome' = NoOutcome
  /\ UNCHANGED <<periodic, scoring, route, stateEmotions>>
  /\ emotionSource' = stopEmotionDetection(emotionSource)
  /\ isRecording
  /\ isRecording' = FALSE
  /\ svcStopTranscription
  /\ UNCHANGED <<isAiSpeaking, transcription, conversationHistory, lastTranscriptionRef,
                 timers, oracle, synth, micEnabled, sessions, sent, accepted, turns, samePhase>>

TypedNext ==
  \/ typedStartInterview
  \/ \E i \in 1..Len(timers) : typedIntroTimer(i)
  \/ \E i \in 1..Len(timers), played \in BOOLEAN : typedTtsReply(i, played)
  \/ typedSpeechEnd
  \/ \E u \in EmotionUtterances : typedHandleSendResponse(u)
  \/ \E u \in FloorUtterances : typedResult(u)
  \/ \E i \in 1..Len(timers) : typedGenerateTimer(i)
  \/ \E i \in 1..Len(timers), aiText \in OracleReplies : typedOracleReply(i, aiText)
  \/ \E i \in 1..Len(timers), fallback \in fallbackResponses : typedOracleFailure(i, fallback)
  \/ typedEndInterview

TypedSpec == Init /\ [][TypedNext]_vars

\* ------------------------------------------------------------------------
\* The duration and score intervals
\* ------------------------------------------------------------------------
\* Time passes in seconds.  A timer runs when it is due or later, never
\* earlier; the effect with the score interval runs again after every change
\* of isRecording, transcription, emotions, duration or lastScoreUpdate, and
\* clears the interval it set before it sets the next.
Min(a, b) == IF a < b THEN a ELSE b
Max(a, b) == IF a > b THEN a ELSE b

RECURSIVE Joined(_)
Joined(texts) == IF texts = <<>> THEN <<>> ELSE Head(texts) \o Joined(Tail(texts))

\* interviewState.transcription.length
transcriptLength == TextLen(Joined(transcription))

\* the data condition of updateScore
hasScoreData == transcriptLength > 50 \/ Len(stateEmotions) > 5

SecondPasses ==
  /\ periodic.armed
  /\ periodic' = [periodic EXCEPT
                    !.durationDue = Max(0, @ - 1),
                    !.scoreDue = Max(0, @ - 1),
                    !.sinceUpdate = Min(scoreUpdateSeconds + 1, @ + 1),
                    !.closureSince = Min(scoreUpdateSeconds + 1, @ + 1),
                    !.inFlight = {Min(scoreUpdateSeconds + 1, a + 1) : a \in @}]
  /\ svcUnchanged
  /\ UNCHANGED <<isRecording, isAiSpeaking, transcription, conversationHistory,
                 lastTranscriptionRef, timers, oracle, synth, micEnabled, sessions, sent,
                 accepted, turns, samePhase, outcome, scoring, route, stateEmotions,
                 emotionSource>>

\* the callback of the duration interval (the counter is kept up to
\* MaxDuration; the state changes with every call)
DurationTick ==
  /\ periodic.armed /\ periodic.durationDue = 0
  /\ periodic' = [periodic EXCEPT !.durationDue = 1,
                                  !.duration = Min(MaxDuration, @ + 1),
                                  !.rendered = FALSE]
  /\ svcUnchanged
  /\ UNCHANGED <<isRecording, isAiSpeaking, transcription, conversationHistory,
                 lastTranscriptionRef, timers, oracle, synth, micEnabled, sessions, sent,
                 accepted, turns, samePhase, outcome, scoring, route, stateEmotions,
                 emotionSource>>

\* the render after a state change: the cleanup of the score effect clears
\* its interval and the effect sets a new one, whose callback sees this render
EffectRuns ==
  /\ periodic.armed /\ ~periodic.rendered
  /\ periodic' = [periodic EXCEPT !.rendered = TRUE,
                                  !.scoreDue = scoreCheckSeconds,
                                  !.closureSince = periodic.sinceUpdate]
  /\ svcUnchanged
  /\ UNCHANGED <<isRecording, isAiSpeaking, transcription, conversationHistory,
                 lastTranscriptionRef, timers, oracle, synth, micEnabled, sessions, sent,
                 accepted, turns, samePhase, outcome, scoring, route, stateEmotions,
                 emotionSource>>

\* the callback of the score interval, up to its fetch; the duration
\* interval, set earlier with a shorter delay, is never due after it
updateScore ==
  /\ periodic.armed /\ periodic.scoreDue = 0 /\ periodic.durationDue > 0
  /\ LET send == periodic.closureSince > scoreUpdateSeconds /\ hasScoreData
     IN  /\ send => Cardinality(periodic.inFlight) < MaxInFlight
         /\ periodic' = [periodic EXCEPT !.scoreDue = scoreCheckSeconds,
                                         !.inFlight = IF send THEN @ \cup {0} ELSE @]
  /\ svcUnchanged
  /\ UNCHANGED <<isRecording, isAiSpeaking, transcription, conversationHistory,
                 lastTranscriptionRef, timers, oracle, synth, micEnabled, sessions, sent,
                 accepted, turns, samePhase, outcome, scoring, route, stateEmotions,
                 emotionSource>>

\* the scoring route answers the request sent a seconds ago: lastScoreUpdate
\* becomes the time of the request, unless the status is not OK
ScoreResponse(a, updated) ==
  /\ a \in periodic.inFlight
  /\ periodic' = IF updated
                 THEN [periodic EXCEPT !.inFlight = @ \ {a}, !.sinceUpdate = a,
                                       !.rendered = FALSE]
                 ELSE [periodic EXCEPT !.inFlight = @ \ {a}]
  /\ svcUnchanged
  /\ UNCHANGED <<isRecording, isAiSpeaking, transcription, conversationHistory,
                 lastTranscriptionRef, timers, oracle, synth, micEnabled, sessions, sent,
                 accepted, turns, samePhase, outcome, scoring, route, stateEmotions,
                 emotionSource>>

\* an answer of 67 characters
LongAnswer ==
  <<"Then", "team", "problem", "and", "project", "more",
    "Please", "tell", "want", "good", "start", "now.">>

PeriodicTranscripts == { <<<<"I", "want", "it", "now.">>>>, <<LongAnswer>> }

PeriodicEmotions == { <<>>, [i \in 1..6 |-> [emotion |-> "confident", score |-> 80]] }

\* An interview that is being recorded: the greeting has been spoken, the
\* candidate has answered once, and the request to the reply oracle failed,
\* so that no timer of the dialogue is pending.
PeriodicInit ==
  /\ isRecording = TRUE
  /\ isAiSpeaking = FALSE
  /\ transcription \in PeriodicTranscripts
  /\ conversationHistory = <<[speaker |-> "exchequer", text |-> initialGreeting]>>
  /\ lastTranscriptionRef = transcription[1]
  /\ isListening = TRUE
  /\ callback = LogCallback
  /\ recRunning = TRUE
  /\ timers = <<>>
  /\ oracle = 0
  /\ synth = <<>>
  /\ micEnabled = TRUE
  /\ sessions = 1
  /\ sent = 0
  /\ accepted = 1
  /\ turns = 2
  /\ samePhase = FALSE
  /\ outcome = NoOutcome
  /\ scoring = <<>>
  /\ route = NoRoute
  /\ stateEmotions \in PeriodicEmotions
  /\ emotionSource = "running"
  /\ periodic = setIntervals(NoIntervals)

PeriodicNext ==
  \/ SecondPasses
  \/ DurationTick
  \/ EffectRuns
  \/ updateScore
  \/ \E a \in periodic.inFlight, updated \in BOOLEAN : ScoreResponse(a, updated)
  \/ endInterview

\* every timer that is due runs, and the clock moves on
PeriodicSpec ==
  /\ PeriodicInit
  /\ [][PeriodicNext]_vars
  /\ WF_vars(SecondPasses)
  /\ WF_vars(DurationTick)
  /\ WF_vars(EffectRuns)
  /\ WF_vars(updateScore)

\* ------------------------------------------------------------------------
\* The listening phase after an Agent turn, for chosen texts
\* ------------------------------------------------------------------------
\* texts the Agent has just spoken
EchoAgentTexts ==
  { <<"Let's", "get", "a", "good", "start", "on", "this">>,
    <<"So", "it", "is", "a", "good", "start.">>,
    <<"Good", "start.", "Tell", "more.">>,
    <<"Please", "tell", "more.">> }

\* final transcripts the recognizer delivers after them
EchoCandidates ==
  { <<"That's", "a", "good", "start">>,
    <<"Yes", "it", "is">>,
    <<"Good", "project", "and", "more", "please">>,
    <<"I", "want", "more">>,
    <<"Please", "tell", "more.">>,
    <<"I", "want", "it", "now.">>,
    <<"Thank", "you">> }

\* The interview has started, the Agent has spoken aiText as its first turn,
\* the 800 ms pause after it has elapsed and transcription has just resumed.
EchoInit ==
  \E aiText \in EchoAgentTexts :
    /\ isRecording = TRUE
    /\ isAiSpeaking = FALSE
    /\ transcription = <<>>
    /\ conversationHistory = <<[speaker |-> "exchequer", text |-> aiText]>>
    /\ lastTranscriptionRef = NoText
    /\ isListening = TRUE
    /\ callback = FollowUpCallback(FALSE, aiText)
    /\ recRunning = TRUE
    /\ timers = <<>>
    /\ oracle = 0
    /\ synth = <<>>
    /\ micEnabled = TRUE
    /\ sessions = 1
    /\ sent = 0
    /\ accepted = 0
    /\ turns = 1
    /\ samePhase = FALSE
    /\ outcome = NoOutcome
    /\ scoring = <<>>
    /\ route = NoRoute
    /\ stateEmotions = <<>>
    /\ emotionSource = "off"
    /\ periodic = NoIntervals

EchoNext ==
  \/ \E u \in EchoCandidates : Result(u)
  \/ EchoWindowElapsed

EchoSpec == EchoInit /\ [][EchoNext]_vars

\* ------------------------------------------------------------------------
\* The normalizer applied to the first result of an interview
\* ------------------------------------------------------------------------
NormWords == {"i", "I", "want", "it"}

\* every utterance of at most MaxWords of these words
NormInputs == UNION {[1..n -> NormWords] : n \in 1..MaxWords}

\* the interview has just been started
NormInit ==
  /\ isRecording = TRUE
  /\ isAiSpeaking = FALSE
  /\ transcription = <<>>
  /\ conversationHistory = <<>>
  /\ lastTranscriptionRef = NoText
  /\ isListening = TRUE
  /\ callback = InitialCallback(FALSE)
  /\ recRunning = TRUE
  /\ timers = <<Timer("greeting", 1000, FALSE, NoText, FALSE, FALSE)>>
  /\ oracle = 0
  /\ synth = <<>>
  /\ micEnabled = TRUE
  /\ sessions = 1
  /\ sent = 0
  /\ accepted = 0
  /\ turns = 1
  /\ samePhase = FALSE
  /\ outcome = NoOutcome
  /\ scoring = <<>>
  /\ route = NoRoute
  /\ stateEmotions = <<>>
  /\ emotionSource = "off"
  /\ periodic = NoIntervals

\* the recognizer delivers the first result of the interview
NormNext == \E u \in NormInputs : transcription = <<>> /\ Result(u)

NormSpec == NormInit /\ [][NormNext]_vars

\* ------------------------------------------------------------------------
\* Scoring route: numbers
\* ------------------------------------------------------------------------
\* A number with a fractional part is a pair <<numerator, denominator>> with
\* a positive denominator; the arithmetic is exact.
Frac(n, d) == <<n, d>>

Plus(a, b) == <<a[1] * b[2] + b[1] * a[2], a[2] * b[2]>>

Minus(a, b) == <<a[1] * b[2] - b[1] * a[2], a[2] * b[2]>>

Less(a, b) == a[1] * b[2] < b[1] * a[2]

Math_min(a, b) == IF Less(b, a) THEN b ELSE a

Math_max(a, b) == IF Less(a, b) THEN b ELSE a

\* Math.round: the nearest integer, a half rounded up
Math_round(a) == (2 * a[1] + a[2]) \div (2 * a[2])

\* ------------------------------------------------------------------------
\* Scoring route: the request
\* ------------------------------------------------------------------------
\* An entry of data.emotions: null, or an object with a label and a score;
\* the score is held in hundredths.
null == [isNull |-> TRUE, emotion |-> "", score |-> 0]

Emotion(emotion, score) == [isNull |-> FALSE, emotion |-> emotion, score |-> score]

\* sum of e.score over the entries, in hundredths
RECURSIVE SumScore(_)
SumScore(emotions) ==
  IF emotions = <<>> THEN 0 ELSE Head(emotions).score + SumScore(Tail(emotions))

\* sum of e.score squared over the entries, in ten-thousandths
RECURSIVE SumSquares(_)
SumSquares(emotions) ==
  IF emotions = <<>> THEN 0
  ELSE Head(emotions).score * Head(emotions).score + SumSquares(Tail(emotions))

\* emotions.filter(e => labels.includes(e.emotion.toLowerCase())).length
CountLabels(emotions, labels) ==
  Cardinality({i \in DOMAIN emotions : emotions[i].emotion \in labels})

\* an entry is null: reading e.score or e.emotion of it throws a TypeError
HasNull(emotions) == \E i \in DOMAIN emotions : emotions[i].isNull

\* emotions.filter(e => e && typeof e.score === 'number')
validEmotionsOf(emotions) == SelectSeq(emotions, LAMBDA e : ~e.isNull)

\* <<a, k>>: the lower-case word a includes the keyword k. No text over Words
\* includes a keyword of several words, or a keyword that is not listed here.
IncludesPairs ==
  { <<"project", "project">>, <<"problem", "problem">>, <<"team", "team">>,
    <<"then", "then">> }

\* text.toLowerCase().includes(keyword)
Includes(text, keyword) ==
  \E i \in DOMAIN text : <<toLowerCase(text[i]), keyword>> \in IncludesPairs

\* keywords.filter(keyword => text.includes(keyword)).length
CountIncluded(text, keywords) == Cardinality({k \in keywords : Includes(text, k)})

fillerWords == {"um", "uh", "like", "you know", "basically", "actually", "literally"}

\* the word with its punctuation removed, lower-cased
cleanWord(w) == stripPunct(toLowerCase(w))

\* words of the text that are filler words
fillerCountOf(text) == Cardinality({i \in DOMAIN text : cleanWord(text[i]) \in fillerWords})

\* split(/\s+/).filter(word => word.length > 1 && /^[a-zA-Z'-]+$/.test(word))
communicationWords(text) ==
  SelectSeq(text, LAMBDA w : Tok[w].len > 1 /\ stripPunct(w) = w)

\* split(/[.!?]+/).filter(s => s.trim().length > 5).length: a sentence ends
\* at a word that ends in . ! or ?, or at the last word of the text
sentencesOf(text) ==
  LET ends == {i \in DOMAIN text : EndsTerminal(text[i]) \/ i = Len(text)}
      begin(e) == CHOOSE i \in 1..e :
                    /\ \A j \in i..(e - 1) : ~EndsTerminal(text[j])
                    /\ i = 1 \/ EndsTerminal(text[i - 1])
      trimmed(e) == TextLen(SubSeq(text, begin(e), e))
                    - (IF EndsTerminal(text[e]) THEN 1 ELSE 0)
  IN  Cardinality({e \in ends : trimmed(e) > 5})

\* ------------------------------------------------------------------------
\* Scoring route: the six sub-scores
\* ------------------------------------------------------------------------
calculateCommunicationScore(data) ==
  LET words == communicationWords(data.transcription)
      n == Len(words)
      sentences == sentencesOf(data.transcription)
      wordScore ==
        IF n >= 50 /\ n <= 150 THEN Math_min(Frac(n * 45, 150), Frac(45, 1))
        ELSE IF n > 150 /\ n <= 300
             THEN Plus(Frac(45, 1), Math_min(Frac((n - 150) * 35, 150), Frac(35, 1)))
        ELSE IF n > 300
             THEN Minus(Frac(75, 1), Math_min(Frac((n - 300) * 15, 200), Frac(15, 1)))
        ELSE IF n >= 10 THEN Frac(n * 30, 50)
        ELSE Frac(n * 3, 1)
      structureScore ==
        IF sentences > 0 /\ n >= 8 * sentences /\ n <= 20 * sentences THEN 20
        ELSE IF sentences > 0 /\ n >= 5 * sentences /\ n <= 25 * sentences THEN 15
        ELSE 5
      uniqueWords ==
        { toLowerCase(words[i]) : i \in
            { j \in DOMAIN words :
                /\ Tok[words[j]].len > 2
                /\ toLowerCase(words[j]) \notin
                     {"the", "and", "but", "for", "are", "that", "this", "was"} } }
      diversityScore == Math_min(Frac(Cardinality(uniqueWords) * 60, n), Frac(20, 1))
      fillerPenalty == Math_min(Frac(fillerCountOf(data.transcription) * 2, 1), Frac(15, 1))
      total == Minus(Plus(Plus(wordScore, Frac(structureScore, 1)), diversityScore),
                     fillerPenalty)
  IN  IF data.transcription = <<>> \/ n = 0 THEN 0
      ELSE Math_round(Math_max(Frac(0, 1), Math_min(total, Frac(100, 1))))

calculateConfidenceScore(data) ==
  LET emotions == data.emotions
      n == Len(emotions)
      validEmotions ==
        SelectSeq(emotions, LAMBDA e : ~e.isNull /\ e.score >= 0 /\ e.score <= 100)
      confident == CountLabels(emotions, {"confident", "happy", "positive", "calm"})
      nervous == CountLabels(emotions, {"nervous", "worried", "sad", "anxious"})
      \* avgEmotionScore * 50 + confidenceRatio * 30 - nervousRatio * 20
      total == Frac(SumScore(emotions) + 60 * confident - 40 * nervous, 2 * n)
  IN  IF n = 0
      THEN (IF Len(data.transcription) > 20 \/ TextLen(data.transcription) > 20
            THEN 50 ELSE 30)
      ELSE IF validEmotions = <<>> THEN 40
      ELSE Math_round(Math_max(Math_min(total, Frac(100, 1)), Frac(0, 1)))

calculateTechnicalScore(data) ==
  LET text == data.transcription
      technicalCount == CountIncluded(text,
        {"project", "experience", "technology", "system", "development", "design",
         "implementation", "solution", "framework", "database", "api", "architecture",
         "algorithm", "optimization", "testing", "deployment", "cloud", "security"})
      methodologyCount == CountIncluded(text,
        {"agile", "scrum", "waterfall", "ci/cd", "devops", "version control",
         "git", "docker", "kubernetes", "microservices", "mvc", "rest"})
      softSkillCount == CountIncluded(text,
        {"team", "collaboration", "leadership", "communication", "problem-solving",
         "analytical", "creative", "innovative", "adaptable", "learning"})
      score == Plus(Plus(Math_min(Frac(technicalCount * 5, 1), Frac(40, 1)),
                         Math_min(Frac(methodologyCount * 8, 1), Frac(30, 1))),
                    Math_min(Frac(softSkillCount * 5, 1), Frac(30, 1)))
  IN  IF text = <<>> THEN 0 ELSE Math_round(Math_min(score, Frac(100, 1)))

calculateProblemSolvingScore(data) ==
  LET text == data.transcription
      indicatorCount == CountIncluded(text,
        {"challenge", "problem", "solution", "approach", "analyze", "evaluate",
         "consider", "alternative", "option", "strategy", "method", "process",
         "step", "first", "then", "finally", "because", "therefore", "result"})
      structureCount == CountIncluded(text,
        {"first of all", "to begin with", "next", "furthermore", "in addition",
         "on the other hand", "however", "therefore", "as a result", "in conclusion"})
      \* matches of /for example|such as|instance|specifically/g
      exampleCount ==
        Cardinality({i \in DOMAIN text :
                       \E k \in {"instance", "specifically"} :
                          <<toLowerCase(text[i]), k>> \in IncludesPairs})
      score == Plus(Plus(Math_min(Frac(indicatorCount * 4, 1), Frac(50, 1)),
                         Math_min(Frac(structureCount * 8, 1), Frac(30, 1))),
                    Math_min(Frac(exampleCount * 10, 1), Frac(20, 1)))
  IN  IF text = <<>> THEN 0 ELSE Math_round(Math_min(score, Frac(100, 1)))

calculateEmotionalIntelligenceScore(data) ==
  LET emotions == data.emotions
      n == Len(emotions)
      \* variance * 100, the scores being in hundredths
      spread == Frac(n * SumSquares(emotions) - SumScore(emotions) * SumScore(emotions),
                     100 * n * n)
      stabilityScore == Math_max(Frac(0, 1), Minus(Frac(50, 1), spread))
      positive == CountLabels(emotions, {"happy", "confident", "positive", "calm", "focused"})
      positivityScore == Frac(positive * 50, n)
  IN  IF n = 0 THEN 50
      ELSE IF validEmotionsOf(emotions) = <<>> THEN 40
      ELSE Math_round(Plus(stabilityScore, positivityScore))

calculateArticulationScore(data) ==
  LET words == data.transcription
      fillerPenalty == Math_min(Frac(fillerCountOf(words) * 100, Len(words)), Frac(40, 1))
      \* cleaned words that occur more than 3 times
      repeatedWords ==
        Cardinality({c \in {cleanWord(words[i]) : i \in DOMAIN words} :
                       Cardinality({i \in DOMAIN words : cleanWord(words[i]) = c}) > 3})
      repetitionPenalty == Math_min(Frac(repeatedWords * 5, 1), Frac(20, 1))
  IN  IF words = <<>> THEN 0
      ELSE Math_round(Math_max(Minus(Minus(Frac(80, 1), fillerPenalty), repetitionPenalty),
                               Frac(0, 1)))

\* ------------------------------------------------------------------------
\* Scoring route: insights, recommendations, tier
\* ------------------------------------------------------------------------
\* An insight or a recommendation is written as the words it begins with.
generateInsights(data, scores) ==
  LET text == data.transcription
      \* split(/\s+/).filter(w => w.length > 1).length
      words == Len(SelectSeq(text, LAMBDA w : Tok[w].len > 1))
      speakingRate == IF data.duration > 0
                      THEN Math_round(Frac(words * 60, data.duration)) ELSE 0
      foundTechnical == CountIncluded(text,
        {"project", "system", "development", "technology", "framework", "database",
         "api", "solution", "implementation"})
      foundProblemSolving == CountIncluded(text,
        {"challenge", "problem", "solution", "approach", "analyze", "strategy", "method"})
  IN  <<IF scores.communication >= 80 THEN "Excellent communication skills"
        ELSE IF scores.communication >= 60 THEN "Good communication foundation"
        ELSE "Communication needs improvement">>
      \o (IF speakingRate = 0 THEN <<>>
          ELSE IF speakingRate >= 120 /\ speakingRate <= 160 THEN <<"Optimal speaking pace">>
          ELSE IF speakingRate > 160 THEN <<"Speaking pace is fast">>
          ELSE <<"Speaking pace is slow">>)
      \o (IF data.emotions = <<>> THEN <<>>
          ELSE IF scores.confidence >= 80 THEN <<"High confidence level demonstrated">>
          ELSE IF scores.confidence >= 60 THEN <<"Moderate confidence">>
          ELSE <<"Lower confidence detected">>)
      \o <<IF scores.technicalKnowledge >= 70 THEN "Strong technical knowledge"
           ELSE IF foundTechnical > 0 THEN "Some technical knowledge shown"
           ELSE "Limited technical vocabulary detected">>
      \o <<IF data.duration < 120 THEN "Brief response duration"
           ELSE IF data.duration > 300 THEN "Comprehensive response duration"
           ELSE "Good response length">>
      \o (IF foundProblemSolving >= 3 THEN <<"Strong problem-solving communication">>
          ELSE IF foundProblemSolving > 0 THEN <<"Some problem-solving language present">>
          ELSE <<>>)

generateRecommendations(score, data) ==
  LET nervous == CountLabels(data.emotions, {"nervous", "worried", "anxious"})
  IN  (IF score >= 85
       THEN <<"Continue leveraging strong interview skills",
              "Consider mentoring others in interview preparation">>
       ELSE IF score >= 70
       THEN <<"Practice providing more specific examples and details",
              "Work on maintaining consistent confidence throughout responses">>
       ELSE IF score >= 50
       THEN <<"Focus on structured response techniques (STAR method)",
              "Practice common interview questions with timed responses",
              "Work on technical vocabulary and industry knowledge">>
       ELSE <<"Invest in comprehensive interview preparation",
              "Consider mock interviews with feedback",
              "Build confidence through practice and preparation",
              "Study common interview patterns and response structures">>)
      \* ''.split(' ') has one element
      \o (IF Len(data.transcription) < 100
          THEN <<"Practice providing more detailed and comprehensive answers">> ELSE <<>>)
      \o (IF data.emotions # <<>> /\ 10 * nervous > 3 * Len(data.emotions)
          THEN <<"Work on relaxation techniques and confidence building exercises">>
          ELSE <<>>)

getHiringRecommendation(score) ==
  IF score >= 85 THEN "STRONG_HIRE"
  ELSE IF score >= 70 THEN "HIRE"
  ELSE IF score >= 55 THEN "LEAN_HIRE"
  ELSE "NO_HIRE"

ScoringResult(overallScore, breakdown, insights, recommendations, aiAnalysis, hiringRecommendation) ==
  [overallScore |-> overallScore, breakdown |-> breakdown, insights |-> insights,
   recommendations |-> recommendations, aiAnalysis |-> aiAnalysis,
   hiringRecommendation |-> hiringRecommendation]

Breakdown(communication, confidence, technicalKnowledge, problemSolving, emotionalIntelligence, articulation) ==
  [communication |-> communication, confidence |-> confidence,
   technicalKnowledge |-> technicalKnowledge, problemSolving |-> problemSolving,
   emotionalIntelligence |-> emotionalIntelligence, articulation |-> articulation]

\* ------------------------------------------------------------------------
\* Scoring route: the two paths
\* ------------------------------------------------------------------------
getFallbackScoring(data) ==
  LET validEmotions == validEmotionsOf(data.emotions)
      wordCount == Len(data.transcription)
      \* the average score, in hundredths
      avgEmotion == IF validEmotions # <<>>
                    THEN Frac(SumScore(validEmotions), Len(validEmotions))
                    ELSE Frac(0, 1)
      \* (wordCount / 200) * 30 + avgEmotion * 40 + (duration / 600) * 30
      baseScore == Math_min(Plus(Plus(Frac(wordCount * 30, 200),
                                      Frac(avgEmotion[1] * 40, avgEmotion[2] * 100)),
                                 Frac(data.duration * 30, 600)),
                            Frac(100, 1))
  IN  IF wordCount = 0 /\ validEmotions = <<>>
      THEN ScoringResult(0, Breakdown(0, 0, 0, 0, 0, 0),
                         <<"No interview data available for analysis">>,
                         <<"Complete the interview to receive assessment">>,
                         "No data available for analysis", "NO_HIRE")
      ELSE ScoringResult(
             Math_round(Math_max(Frac(0, 1), baseScore)),
             Breakdown(Math_round(Math_max(Frac(0, 1), Frac(wordCount * 100, 150))),
                       Math_round(avgEmotion),
                       0,
                       0,
                       Math_round(avgEmotion),
                       IF wordCount > 50 THEN Math_round(Frac(wordCount * 100, 200)) ELSE 0),
             <<IF wordCount > 0 THEN "words captured during interview"
               ELSE "No speech detected",
               IF validEmotions # <<>> THEN "emotion data points collected"
               ELSE "No emotion data captured",
               IF data.duration > 0 THEN "Interview duration"
               ELSE "No duration recorded">>,
             IF wordCount > 0
             THEN <<"Review interview performance for improvement opportunities">>
             ELSE <<"Ensure microphone is working and speak clearly during interview">>,
             "Interview Analysis Summary",
             IF ~Less(baseScore, Frac(70, 1)) THEN "HIRE"
             ELSE IF ~Less(baseScore, Frac(40, 1)) THEN "LEAN_HIRE"
             ELSE "NO_HIRE")

\* The sub-score functions, generateInsights and generateRecommendations read
\* e.score or e.emotion of every entry of data.emotions: with a null entry
\* one of them throws, and generateDynamicScore catches it.
scoringThrows(data) == HasNull(data.emotions)

\* wordCount === 0 && validEmotions.length === 0 && no duration
hasNoData(data) ==
  /\ Len(data.transcription) = 0
  /\ validEmotionsOf(data.emotions) = <<>>
  /\ data.duration = 0

generateFallbackAnalysis(data) == "Interview Analysis Summary"

RATE_LIMIT_WINDOW == 60000

\* rateLimitCache.get(key): the entries under the key, at most one
cacheGet(cache, key) == {e \in cache : e.key = key}

\* FALSE when the key has an entry younger than the window; otherwise the
\* entries older than the window are deleted
checkRateLimit(r, key) ==
  IF \E e \in cacheGet(r.rateLimitCache, key) : r.now - e.timestamp < RATE_LIMIT_WINDOW
  THEN [ok |-> FALSE, rateLimitCache |-> r.rateLimitCache]
  ELSE [ok |-> TRUE,
        rateLimitCache |-> {e \in r.rateLimitCache :
                              ~(r.now - e.timestamp > RATE_LIMIT_WINDOW)}]

\* the responses cached under the key and younger than the window: none
\* stands for null
getCachedAnalysis(r, key) ==
  {e.response : e \in {c \in cacheGet(r.rateLimitCache, key) :
                         r.now - c.timestamp < RATE_LIMIT_WINDOW}}

setCachedAnalysis(cache, key, now, analysis) ==
  {e \in cache : e.key # key}
    \cup {[key |-> key, timestamp |-> now, response |-> analysis]}

\* data.transcription.substring(0, 50): the words that lie wholly within the
\* first 50 characters, and the word the cut falls in with the number of its
\* characters kept
substring50(text) ==
  LET n == IF Len(text) < 26 THEN Len(text) ELSE 26
      k == CHOOSE j \in 0..n :
             /\ TextLen(SubSeq(text, 1, j)) <= 50
             /\ j < Len(text) => TextLen(SubSeq(text, 1, j + 1)) > 50
      kept == 50 - TextLen(SubSeq(text, 1, k)) - (IF k > 0 THEN 1 ELSE 0)
  IN  [whole |-> SubSeq(text, 1, k),
       cut |-> IF k < Len(text) /\ kept > 0 THEN <<text[k + 1], kept>> ELSE <<>>]

\* Keys are tuples: <<"gemini_api">> is the key 'gemini_api'.
\* `${wordCount}_${avgEmotionScore}_${Math.floor(duration / 30)}_${first 50 characters}`
cacheKey(data) ==
  <<Cardinality({i \in DOMAIN data.transcription : Tok[data.transcription[i]].len > 1}),
    IF data.emotions = <<>> THEN 0
    ELSE Math_round(Frac(SumScore(data.emotions), Len(data.emotions))),
    data.duration \div 30,
    substring50(data.transcription)>>

\* The analysis returned and the cache left behind. reply is what
\* generateContent does if it is called. With a null entry in data.emotions
\* the average of the cache key throws inside the try block.
getAIAnalysis(r, data, reply) ==
  IF ~r.genAI
  THEN [analysis |-> generateFallbackAnalysis(data), rateLimitCache |-> r.rateLimitCache]
  ELSE IF HasNull(data.emotions)
  THEN [analysis |-> generateFallbackAnalysis(data), rateLimitCache |-> r.rateLimitCache]
  ELSE LET key == cacheKey(data)
           cachedAnalysis == getCachedAnalysis(r, key)
           limit == checkRateLimit(r, <<"gemini_api">>)
       IN  IF cachedAnalysis # {}
           THEN [analysis |-> CHOOSE c \in cachedAnalysis : TRUE,
                 rateLimitCache |-> r.rateLimitCache]
           ELSE IF ~limit.ok
           THEN [analysis |-> generateFallbackAnalysis(data),
                 rateLimitCache |-> r.rateLimitCache]
           ELSE IF reply = "rejected"
           THEN [analysis |-> generateFallbackAnalysis(data),
                 rateLimitCache |-> limit.rateLimitCache]
           ELSE [analysis |-> reply,
                 rateLimitCache |-> setCachedAnalysis(limit.rateLimitCache, key,
                                                      r.now, reply)]

\* aiAnalysis is what getAIAnalysis returned: the oracle's text or the
\* summary of generateFallbackAnalysis
generateDynamicScore(data, aiAnalysis) ==
  LET wordCount == Len(data.transcription)
      validEmotions == validEmotionsOf(data.emotions)
      communicationScore == calculateCommunicationScore(data)
      confidenceScore == calculateConfidenceScore(data)
      technicalScore == calculateTechnicalScore(data)
      problemSolvingScore == calculateProblemSolvingScore(data)
      emotionalIntelligenceScore == calculateEmotionalIntelligenceScore(data)
      articulationScore == calculateArticulationScore(data)
      overallScore ==
        Math_round(Frac(25 * communicationScore + 20 * confidenceScore
                        + 20 * technicalScore + 15 * problemSolvingScore
                        + 10 * emotionalIntelligenceScore + 10 * articulationScore, 100))
      breakdown == Breakdown(communicationScore, confidenceScore, technicalScore,
                             problemSolvingScore, emotionalIntelligenceScore,
                             articulationScore)
  IN  IF hasNoData(data)
      THEN getFallbackScoring(data)
      ELSE IF scoringThrows(data) THEN getFallbackScoring(data)
      ELSE ScoringResult(overallScore, breakdown, generateInsights(data, breakdown),
                         generateRecommendations(overallScore, data), aiAnalysis,
                         getHiringRecommendation(overallScore))

\* ------------------------------------------------------------------------
\* Scoring route: requests and the handler
\* ------------------------------------------------------------------------
RECURSIVE Repeat(_, _)
Repeat(text, n) == IF n = 0 THEN <<>> ELSE text \o Repeat(text, n - 1)

\* transcripts of 0, 2, 4, 70 and 160 words
ScoreTranscripts ==
  { <<>>,
    <<"Good", "project">>,
    <<"I", "want", "it", "now.">>,
    Repeat(<<"Then", "team", "problem", "and", "project", "like", "more.">>, 10),
    Repeat(<<"I", "want", "it", "now.">>, 40) }

ScoreEntries ==
  {null, Emotion("confident", 80), Emotion("nervous", 45), Emotion("focused", 60)}

\* every emotion buffer of at most MaxEmotions entries
ScoreEmotions == UNION {[1..n -> ScoreEntries] : n \in 0..MaxEmotions}

\* seconds
ScoreDurations == {0, 60, 400}

InterviewData ==
  [transcription : ScoreTranscripts, emotions : ScoreEmotions, duration : ScoreDurations]

\* result.response.text() of generateContent, or the call rejects
GenerateOutcomes == {"oracle analysis", "oracle analysis, reworded", "rejected"}

\* a handler whose scores depend on whether the oracle answered
POST_ScoresNeedOracle(data, reply) ==
  LET ai == IF hasNoData(data)
            THEN [analysis |-> "", rateLimitCache |-> route.rateLimitCache]
            ELSE getAIAnalysis(route, data, reply)
      result == IF ai.analysis = generateFallbackAnalysis(data)
                THEN getFallbackScoring(data)
                ELSE generateDynamicScore(data, ai.analysis)
  IN  /\ scoring' = Append(scoring, [data |-> data, result |-> result])
      /\ route' = [route EXCEPT !.rateLimitCache = ai.rateLimitCache]
      /\ svcUnchanged
      /\ UNCHANGED <<isRecording, isAiSpeaking, transcription, conversationHistory,
                     lastTranscriptionRef, timers, oracle, synth, micEnabled, sessions,
                     sent, accepted, turns, samePhase, outcome, stateEmotions, emotionSource,
                     periodic>>

\* POST /api/score-interview: the response is the ScoringResult
POST(data, reply) ==
  LET ai == IF hasNoData(data)
            THEN [analysis |-> "", rateLimitCache |-> route.rateLimitCache]
            ELSE getAIAnalysis(route, data, reply)
  IN  /\ scoring' = Append(scoring, [data |-> data,
                                     result |-> generateDynamicScore(data, ai.analysis)])
      /\ route' = [route EXCEPT !.rateLimitCache = ai.rateLimitCache]
      /\ svcUnchanged
      /\ UNCHANGED <<isRecording, isAiSpeaking, transcription, conversationHistory,
                     lastTranscriptionRef, timers, oracle, synth, micEnabled, sessions,
                     sent, accepted, turns, samePhase, outcome, stateEmotions, emotionSource,
                     periodic>>

\* Date.now() of the route's process moves on by 30 s
ClockAdvances ==
  /\ route.now < MaxTicks * 30000
  /\ route' = [route EXCEPT !.now = @ + 30000]
  /\ svcUnchanged
  /\ UNCHANGED <<isRecording, isAiSpeaking, transcription, conversationHistory,
                 lastTranscriptionRef, timers, oracle, synth, micEnabled, sessions,
                 sent, accepted, turns, samePhase, outcome, periodic, scoring, stateEmotions, emotionSource>>

\* the route's process starts with or without GEMINI_API_KEY
ScoreInit ==
  /\ Idle
  /\ scoring = <<>>
  /\ route \in {Route(g) : g \in BOOLEAN}
  /\ stateEmotions = <<>>
  /\ emotionSource = "off"
  /\ periodic = NoIntervals

\* a sentence of 36 words, opened by the word given
Sentence36(first) ==
  <<first>> \o Tail(Repeat(<<"Then", "team", "problem", "and", "project", "more">>, 5))
    \o <<"Please", "tell", "want", "good", "start", "now.">>

\* 5 sentences, 180 words, of which two are filler words
ScenarioTranscripts ==
  { Sentence36("Then") \o Sentence36("um") \o Sentence36("Then")
      \o Sentence36("like") \o Sentence36("Then") }

\* 4 samples that average 0.8, with labels of the confident set
ScenarioEmotions ==
  { <<Emotion("confident", 80), Emotion("confident", 80),
      Emotion("confident", 80), Emotion("confident", 80)>>,
    <<Emotion("happy", 90), Emotion("calm", 70),
      Emotion("positive", 80), Emotion("confident", 80)>> }

ScenarioData ==
  [transcription : ScenarioTranscripts, emotions : ScenarioEmotions, duration : {400}]

\* the first request the route receives
ScoreNext ==
  \E data \in InterviewData \cup ScenarioData, reply \in GenerateOutcomes :
    scoring = <<>> /\ POST(data, reply)

ScoreSpec == ScoreInit /\ [][ScoreNext]_vars

\* requests that differ in the data, in the cache key, or in neither
RouteRequests ==
  { [transcription |-> <<"Good", "project">>,
     emotions |-> <<Emotion("confident", 80)>>, duration |-> 60],
    [transcription |-> <<"Good", "project">>,
     emotions |-> <<Emotion("confident", 80)>>, duration |-> 80],
    [transcription |-> <<"I", "want", "it", "now.">>,
     emotions |-> <<null>>, duration |-> 60],
    [transcription |-> <<>>, emotions |-> <<>>, duration |-> 0] }

\* a series of requests to one process of the route
RouteNext ==
  \/ \E data \in RouteRequests, reply \in GenerateOutcomes :
       Len(scoring) < MaxRequests /\ POST(data, reply)
  \/ ClockAdvances

RouteSpec == ScoreInit /\ [][RouteNext]_vars

\* the unused limit of requests to the oracle within one window
MAX_REQUESTS_PER_MINUTE == 10

\* the k-th request of a series whose cache keys all differ
BurstRequest(k) ==
  [transcription |-> <<"Good", "project">>,
   emotions |-> <<Emotion("confident", 80)>>, duration |-> 30 * k]

\* A series of requests that arrive at one instant at a process of the route.
BurstNext ==
  \E reply \in {"oracle analysis", "rejected"} :
    Len(scoring) < MaxBurst /\ POST(BurstRequest(Len(scoring)), reply)

BurstSpec == ScoreInit /\ [][BurstNext]_vars

\* ------------------------------------------------------------------------
\* Shared vocabulary of the properties
\* ------------------------------------------------------------------------
\* endInterview has run and no interview is being recorded
Ended == sessions > 0 /\ ~isRecording

\* an Agent reply is being played
AgentSpeaking == Audible(synth) # {}

\* the pause between the end of playback and the resumption of transcription
MuteCooldown == Pending("resume") # {}

CompletionTimers(ts) == {i \in 1..Len(ts) : ts[i].kind = "completion"}

\* a step in which a completion timer, the resume timer or the timer that
\* restores the audio track expires and runs its action
TimerFires ==
  \E i \in 1..Len(timers) : CompletionTimer(i) \/ ResumeTimer(i) \/ MicRestoreTimer(i)

\* u would pass the length and duplicate tests of a listening phase
Acceptable(u) ==
  /\ TextLen(u) > 3
  /\ (transcription = <<>> \/ removeStuttering(u) # transcription[Len(transcription)])

\* a step in which the recognizer delivers a final result
Heard(u) == Result(u)

LastOf(seq) == seq[Len(seq)]

\* ------------------------------------------------------------------------
\* Properties
\* ------------------------------------------------------------------------
\* C1: no request to the reply oracle starts while an earlier one has not yet
\* returned or failed: at most one request is in flight.
C1_OneOracleCallInFlight == oracle <= 1

\* C2: at most one Agent turn is in progress: no request to the oracle starts
\* while an Agent reply is being played, and no utterance is handed to the
\* synthesizer while another one is playing.
C2_OneAgentTurnInProgress ==
  [][ /\ (oracle' > oracle => ~AgentSpeaking)
      /\ (Len(synth') > Len(synth) => ~AgentSpeaking) ]_vars

\* C3: the conversation does not stall after a failure: while the interview is
\* recorded, a complete new utterance the recognizer delivers after an oracle
\* or synthesis failure is appended to the transcript and a reply is scheduled
\* for it.
C3_NoStallAfterFailure ==
  [][ \A u \in Utterances :
        (Heard(u) /\ isRecording /\ callback.kind = "log" /\ Acceptable(u)
           /\ InitialDelay(removeStuttering(u)) # 0)
        => (Len(transcription') > Len(transcription)
            /\ Cardinality(CompletionTimers(timers')) > Cardinality(CompletionTimers(timers))) ]_vars

\* C4: once the interview has ended, no completion timer, resume timer or
\* track-restoring timer set before runs its action.
C4_NoTimerAfterEnd == [][Ended => ~TimerFires]_vars

\* C5: when the oracle call fails, the canned fallback reply is spoken: the
\* failure handler starts speaking it.
C5_FallbackOnOracleFailure ==
  [][OracleFailure =>
       \E i \in 1..Len(timers') :
          timers'[i].kind = "preSpeak" /\ timers'[i].text = fallbackResponse]_vars

\* C6: a synthesis error is handled as the end of playback is: every step of
\* the error handler is a step the end-of-playback handler could take.
C6_SynthesisErrorAsEnd ==
  [][(\E i \in 1..Len(synth) : SpeechError(i)) => (\E i \in 1..Len(synth) : SpeechEnd(i))]_vars

\* C7: from the start of the playback of an Agent reply until the pause after
\* it has elapsed, no step of the machine (the candidate's own mute button
\* aside) re-enables the audio track or restarts the recognizer.
C7_CaptureOffWhileSpeaking ==
  [][ ((AgentSpeaking \/ MuteCooldown) /\ (AgentSpeaking \/ MuteCooldown)' /\ ~toggleMute)
      => ((micEnabled' => micEnabled) /\ (recRunning' => recRunning)) ]_vars

\* C8: at most one completion timer is pending at any time.
C8_OneCompletionTimer == Cardinality(CompletionTimers(timers)) <= 1

\* C9: no completion timer is set while an Agent reply is being played or a
\* request to the oracle is in flight.
C9_NoTimerWhileAgentBusy ==
  [][(Cardinality(CompletionTimers(timers')) > Cardinality(CompletionTimers(timers)))
       => (~AgentSpeaking /\ oracle = 0)]_vars

IsPrefix(a, b) == Len(a) <= Len(b) /\ SubSeq(b, 1, Len(a)) = a

\* C11: during an interview (from its start until it ends) every change to
\* the transcript is an append: the previous value is a prefix of the new one.
C11_TranscriptAppendOnly ==
  [][(isRecording /\ isRecording') => IsPrefix(transcription, transcription')]_vars

\* matchRatio > 0.5, in integers
RatioAbove50(aiLastText, newTranscript) ==
  Len(newTranscript) > 0
  /\ 10 * matchCountOf(aiLastText, newTranscript) > 5 * Len(newTranscript)

\* a step in which the callback installed after an Agent turn receives u, a
\* result long enough to be processed
FollowUpHeard(u) == Result(u) /\ callback.kind = "followUp" /\ TextLen(u) > 3

\* C12: a candidate whose matchRatio with the Agent text is 0 (no word of the
\* Agent text is counted as matching) is not rejected as echo, whenever it
\* arrives after the Agent turn.
C12_ZeroRatioAccepted ==
  [][ \A u \in EchoCandidates :
        (FollowUpHeard(u) /\ matchCountOf(callback.aiLastText, u) = 0)
        => outcome'.result # "echo" ]_vars

C14_NoEchoAfterWindow ==
  [][ \A u \in EchoCandidates :
        (FollowUpHeard(u) /\ ~callback.early)
        => /\ outcome'.result # "echo"
           /\ (removeStuttering(u) # lastTranscriptionRef
                 => transcription' = Append(transcription, removeStuttering(u))) ]_vars

\* the Agent's own text, heard after the window, has just been accepted
C14_Witness ==
  /\ outcome = Outcome("accepted", <<"Please", "tell", "more.">>)
  /\ callback.aiLastText = <<"Please", "tell", "more.">>
  /\ ~callback.early

\* C15: inside the echo window a candidate is accepted when none of the three
\* reject conditions holds: its match ratio does not exceed the high
\* threshold (50%), it has no sequence match together with a ratio above 30%,
\* and it does not have more than one match while shorter than 4 words.
C15_AcceptedUnlessRejectCondition ==
  [][ \A u \in EchoCandidates :
        (FollowUpHeard(u) /\ callback.early
           /\ ~RatioAbove50(callback.aiLastText, u)
           /\ ~(sequenceDetectedIn(callback.aiLastText, u) /\ RatioAbove30(callback.aiLastText, u))
           /\ ~(matchCountOf(callback.aiLastText, u) > 1 /\ Len(u) < 4))
        => outcome'.result # "echo" ]_vars

\* C16: the normalizer is idempotent: normalizing a piece of the transcript,
\* which is an output of the normalizer, gives the same piece.
C16_NormalizerIdempotent ==
  \A k \in 1..Len(transcription) :
     removeStuttering(transcription[k]) = transcription[k]

\* the token sequences got from s by deleting one copy of a block of 1 to 3
\* tokens that is immediately followed by the same block
CollapseOnce(s) ==
  { SubSeq(s, 1, i + k - 1) \o SubSeq(s, i + 2 * k, Len(s)) :
      <<i, k>> \in { p \in (1..Len(s)) \X (1..3) :
                       /\ p[1] + 2 * p[2] - 1 <= Len(s)
                       /\ SubSeq(s, p[1], p[1] + p[2] - 1)
                            = SubSeq(s, p[1] + p[2], p[1] + 2 * p[2] - 1) } }

\* the token sequences got from s by deleting such repeats, any number of times
RECURSIVE CollapsesOf(_)
CollapsesOf(s) == {s} \cup UNION {CollapsesOf(t) : t \in CollapseOnce(s)}

Snapshots == {scoring[k].result : k \in DOMAIN scoring}

\* C18: in every ScoreSnapshot the route returns, on the normal path and on
\* the fallback path, each of the six sub-scores and the overall score is an
\* integer from 0 to 100.
C18_ScoresInRange ==
  \A r \in Snapshots :
     /\ r.overallScore \in 0..100
     /\ \A f \in DOMAIN r.breakdown : r.breakdown[f] \in 0..100

\* C19: in every ScoreSnapshot the route returns, the overall score is the
\* rounded weighted sum 0.25 communication + 0.20 confidence + 0.20 technical
\* knowledge + 0.15 problem solving + 0.10 emotional intelligence + 0.10
\* articulation of the sub-scores of that snapshot.
C19_OverallIsWeightedSum ==
  \A r \in Snapshots :
     r.overallScore =
       Math_round(Frac(25 * r.breakdown.communication + 20 * r.breakdown.confidence
                       + 20 * r.breakdown.technicalKnowledge
                       + 15 * r.breakdown.problemSolving
                       + 10 * r.breakdown.emotionalIntelligence
                       + 10 * r.breakdown.articulation, 100))

\* C20: for an empty transcript and an empty emotion buffer, whatever the
\* duration, the snapshot has the overall score and the six sub-scores at 0
\* and its insights have the explicit no-data entry.
C20_NoDataAllZero ==
  \A k \in DOMAIN scoring :
     (scoring[k].data.transcription = <<>> /\ scoring[k].data.emotions = <<>>)
     => /\ scoring[k].result.overallScore = 0
        /\ \A f \in DOMAIN scoring[k].result.breakdown :
              scoring[k].result.breakdown[f] = 0
        /\ \E i \in DOMAIN scoring[k].result.insights :
              scoring[k].result.insights[i] = "No interview data available for analysis"

\* the step has set a completion timer for the text just appended, with a
\* delay in delays
Scheduled(delays) ==
  /\ timers' # <<>>
  /\ LET t == timers'[Len(timers')]
     IN  /\ t.kind = "completion"
         /\ t.delay \in delays
         /\ t.text = transcription'[Len(transcription')]
         /\ \/ timers' = Append(timers, t)
            \/ timers' = Append(clearSilenceTimeout(timers), t)

\* C21: for every accepted utterance, in the first listening phase and after
\* an Agent turn alike, the reply delay is chosen in priority order: a text
\* with terminal punctuation or a closing phrase and more than 10 characters
\* gets the short delay (300 ms, 500 ms counted as short too); otherwise a
\* text longer than 25 characters or with a medial "and", "so", "but" or
\* "because" gets the moderate delay (800 ms); otherwise a text of more than
\* 10 characters gets the longer delay (1200 or 1500 ms).
C21_DelayByPriority ==
  [][\A u \in Utterances :
       (Result(u) /\ outcome'.result = "accepted" /\ ~callback.capt)
       => LET n == transcription'[Len(transcription')]
          IN  IF TextLen(n) <= 10 THEN TRUE
              ELSE IF definitelyComplete(n) THEN Scheduled({300, 500})
              ELSE IF seemsComplete(n) THEN Scheduled({800})
              ELSE Scheduled({1200, 1500})]_vars

\* the two responses agree in everything but the analysis text
SameScores(a, b) ==
  /\ a.overallScore = b.overallScore
  /\ a.breakdown = b.breakdown
  /\ a.insights = b.insights
  /\ a.recommendations = b.recommendations
  /\ a.hiringRecommendation = b.hiringRecommendation

C23_TurnsInOrder ==
  [][/\ \A u \in Utterances :
          (Result(u) /\ outcome'.result = "accepted")
          => \E n \in Utterances \cup {removeStuttering(u)} :
                transcription' = Append(transcription, n)
     /\ \A i \in 1..Len(timers) :
          SpeakAfterWait(i)
          => \E k \in DOMAIN conversationHistory :
                conversationHistory[k] = [speaker |-> "exchequer", text |-> timers[i].text]]_vars

\* C24: once endInterview has run, and until another interview is started, no
\* request to the oracle is started, no utterance is handed to the
\* synthesizer and transcription is not started again.
C24_EndedIsTerminal ==
  [][(Ended /\ ~isRecording')
       => /\ oracle' <= oracle
          /\ Len(synth') <= Len(synth)
          /\ isListening' => isListening]_vars

C26_StopIsIdempotent ==
  [][stopTranscription
       => /\ ~isListening' /\ ~recRunning'
          /\ callback' = callback
          /\ (~isListening /\ ~recRunning) => UNCHANGED <<isListening, recRunning, callback>>
          /\ UNCHANGED <<isRecording, isAiSpeaking, transcription, timers, oracle, synth>>]_vars

\* stopTranscription was called on a service that had been started and was
\* stopped already
C26_Witness ==
  /\ outcome.result = "stopped again"
  /\ callback.kind # "none"
  /\ ~isListening /\ ~recRunning

\* the request is the scenario: 5 sentences, 180 words, 2 filler words, and 4
\* samples averaging 0.8 whose labels are of the confident set
IsScenario(data) ==
  /\ Len(data.transcription) = 180
  /\ sentencesOf(data.transcription) = 5
  /\ fillerCountOf(data.transcription) = 2
  /\ Len(data.emotions) = 4
  /\ ~HasNull(data.emotions)
  /\ SumScore(data.emotions) = 4 * 80
  /\ CountLabels(data.emotions, {"confident", "happy", "positive", "calm"}) = 4

\* C27: for a transcript of 5 sentences and 180 words with 2 filler words and
\* 4 emotion samples averaging 0.8 with confident labels, the communication
\* sub-score is at least 60 and the confidence sub-score at least 70.
C27_ScenarioScores ==
  \A k \in DOMAIN scoring :
     IsScenario(scoring[k].data)
     => /\ scoring[k].result.breakdown.communication >= 60
        /\ scoring[k].result.breakdown.confidence >= 70

\* C28: an utterance the callback rejects (too short, an echo, or a duplicate
\* of the last accepted one) has no effect: the transcript, the reference of
\* the duplicate test and the pending timers are left as they were.
C28_RejectedHasNoEffect ==
  [][\A u \in Utterances :
       (Result(u) /\ outcome'.result \in {"short", "echo", "duplicate"})
       => UNCHANGED <<transcription, lastTranscriptionRef, timers>>]_vars

\* C29: when playback of an Agent turn ends or fails, transcription is not
\* started in that step; it is left to a timer whose delay is at least the
\* echo window.
C29_CooldownCoversEchoWindow ==
  [][\A i \in 1..Len(synth) :
       (SpeechEnd(i) \/ SpeechError(i))
       => /\ isListening' = isListening
          /\ Len(timers') = Len(timers) + 1
          /\ timers'[Len(timers')].kind = "resume"
          /\ timers'[Len(timers')].delay >= echoWindow]_vars

\* C30: when listening resumes after an Agent turn, whether its playback
\* ended or failed, the callback that receives the utterances holds the text
\* of that turn and its echo window is open, so the utterances of the window
\* are checked against that text.
C30_EchoContextOfTurn ==
  [][/\ \A i \in 1..Len(timers) :
          ResumeTimer(i)
          => callback'.aiLastText = timers[i].text /\ callback'.early
     /\ \A i \in 1..Len(synth) :
          (SpeechError(i) /\ isListening')
          => callback'.aiLastText = synth[i].text /\ callback'.early]_vars

\* C31: an accepted utterance of fewer than 10 characters sets no completion
\* timer, in the first listening phase and after an Agent turn alike, so it
\* does not by itself lead to a request to the oracle.
C31_NoTimerBelowFloor ==
  [][\A u \in FloorUtterances :
       (Result(u) /\ outcome'.result = "accepted"
          /\ TextLen(transcription'[Len(transcription')]) < 10)
       => Cardinality(CompletionTimers(timers')) <= Cardinality(CompletionTimers(timers))]_vars

\* C32: every Agent text handed to playback (the introduction, a generated
\* reply or a fallback reply) is in the conversation log as an Agent turn
\* when its playback starts.  The log of this component is only appended to,
\* so an entry made earlier is still there.
C32_LoggedBeforeSpoken ==
  [][\A i \in 1..Len(timers) :
       typedTtsReply(i, TRUE)
       => \E k \in 1..Len(conversationHistory) :
            conversationHistory[k] = [speaker |-> "Sarah", text |-> timers[i].text]]_vars

\* C33: while the interview is recording with a transcript of more than 50
\* characters or more than 5 emotion samples, and more than 30 seconds after
\* the last score update, a scoring request is eventually issued.
C33_ScoreUpdateRuns ==
  (isRecording /\ hasScoreData /\ periodic.sinceUpdate > scoreUpdateSeconds)
    ~> (periodic.inFlight # {} \/ ~isRecording)

\* C34: in every snapshot the route returns, the recommendation tier is the
\* one the overall score gives with the thresholds 85, 70 and 55.
C34_TierByOverall ==
  \A r \in Snapshots :
     r.hiringRecommendation =
       IF r.overallScore >= 85 THEN "STRONG_HIRE"
       ELSE IF r.overallScore >= 70 THEN "HIRE"
       ELSE IF r.overallScore >= 55 THEN "LEAN_HIRE"
       ELSE "NO_HIRE"

\* the answers of the oracle obtained within the window that ends now: each
\* left its entry in rateLimitCache
OracleCallsInWindow ==
  {e \in route.rateLimitCache : route.now - e.timestamp < RATE_LIMIT_WINDOW}

\* C35: the route obtains no more than MAX_REQUESTS_PER_MINUTE analyses from
\* the oracle within one RATE_LIMIT_WINDOW.
C35_RateLimitEnforced == Cardinality(OracleCallsInWindow) <= MAX_REQUESTS_PER_MINUTE

\* C36: isAiSpeaking is true whenever a request to the reply oracle is
\* in flight or an utterance of the Agent is playing or waiting to play.
C36_FlagCoversAgentTurn == (oracle > 0 \/ AgentSpeaking) => isAiSpeaking

\* C37: when the candidate has not muted the microphone and no restore of
\* the audio track is pending, the track is enabled.
C37_MicRestored == Pending("micRestore") = {} => micEnabled

\* C38: each recognition.start() of a restart timer (1000 ms, 1500 ms or
\* 2000 ms) finds the recognizer stopped.
C38_RestartFindsStopped == outcome.result # "restart while running"

\* C39: once the interview has been ended, which stops the emotion source,
\* no sample is delivered to the callback.
C39_NoSampleAfterStop ==
  [][\A emotion \in EmotionSamples : ~(Ended /\ EmotionDetected(emotion))]_vars

====
